---------------------------- MODULE Spec2Model ----------------------------
(***************************************************************************)
(* Solar inverter cluster: the inverter module firmware                   *)
(* (inverter_module_2.ino) and the master controller firmware             *)
(* (unnamed/part_000).                                                    *)
(*                                                                        *)
(* Conventions                                                            *)
(*  - float quantities are fixed point: voltages in mV, currents in mA,   *)
(*    power in mW, temperatures in tenths of a degree Celsius;            *)
(*  - characters are one-character strings, the C string terminator is    *)
(*    NUL; C arrays are sequences, C index i is sequence index i+1;       *)
(*  - the clock millis() is the variable now, advanced at the top of      *)
(*    each loop iteration by the duration of the iteration; an unsigned   *)
(*    long is held as the 32-bit two's complement integer with the same   *)
(*    bits, so that the clock passes from -1 to 0 where millis() wraps.   *)
(***************************************************************************)
EXTENDS Integers, Sequences, FiniteSets, TLC

(***************************************************************************)
(* Program constants of the module firmware                               *)
(***************************************************************************)
EEPROM_ADDRESS_MAX_POWER == 0
EEPROM_ADDRESS_HALTED == 1
MAX_POWER == 425
MIN_MAX_POWER == 50
TOP == 325
LINE_LENGTH == 10
ERROR_NONE == 0
ERROR_UNDER_TEMP == 1
ERROR_OVER_TEMP == 2
ERROR_UNDER_CURRENT == 3
ERROR_OVER_CURRENT == 4
ERROR_CAP_VOLTAGE_LOW == 5
ERROR_CAP_VOLTAGE_HIGH == 6
MIN_TEMPERATURE == -300
MAX_TEMPERATURE == 850
FAN_ON_TEMP == 400
FAN_OFF_TEMP == 350
S0 == 0
S1 == 1
S2 == 2
S3 == 3
S4 == 4
S5 == 5

(***************************************************************************)
(* Bounds of the model                                                    *)
(***************************************************************************)
\* the clock horizon, in loop iterations of LoopMs each
MaxIterations == 5
\* module ids 0..MaxModuleId carry a module in the model
MaxModuleId == 1

\* duration of one loop iteration in ms (delay(20), ten 1 ms samples, the
\* sensor conversion and the serial output), as seen by millis()
LoopMs == 3001

NUL == "NUL"
Digits == {"0", "1", "2", "3", "4", "5", "6", "7", "8", "9"}
Space == {" ", "\t", "\n", "\r"}

DigitVal(c) ==
  CASE c = "0" -> 0 [] c = "1" -> 1 [] c = "2" -> 2 [] c = "3" -> 3
    [] c = "4" -> 4 [] c = "5" -> 5 [] c = "6" -> 6 [] c = "7" -> 7
    [] c = "8" -> 8 [] c = "9" -> 9

\* value of an unsigned 16-bit object
U16(n) == n % 65536
\* value of a (16-bit) int holding the low 16 bits n
I16(n) == IF U16(n) >= 32768 THEN U16(n) - 65536 ELSE U16(n)

\* largest value of the two's complement reading of an unsigned long
ClockMax == 2147483647
\* unsigned long t + n, for 0 <= n <= ClockMax
Later(t, n) ==
  IF t > ClockMax - n THEN ((t - ClockMax) + (n - ClockMax)) - 2 ELSE t + n
\* unsigned long a > b
After(a, b) == IF (a < 0) = (b < 0) THEN a > b ELSE a < 0
\* unsigned long a - b
Elapsed(a, b) ==
  IF b < 0 /\ a > ClockMax + b THEN ((a - ClockMax) - (b + ClockMax)) - 2
  ELSE IF b > 0 /\ a < (0 - ClockMax - 1) + b
       THEN ((a + ClockMax) + (ClockMax - b)) + 2
       ELSE a - b

RECURSIVE AtoiDigits(_, _, _)
AtoiDigits(buf, i, acc) ==
  IF i <= Len(buf) /\ buf[i] \in Digits
  THEN AtoiDigits(buf, i + 1, U16(acc * 10 + DigitVal(buf[i])))
  ELSE acc

\* the position of the first character at or after i that is not white space
RECURSIVE SkipSpace(_, _)
SkipSpace(buf, i) ==
  IF i <= Len(buf) /\ buf[i] \in Space THEN SkipSpace(buf, i + 1) ELSE i

\* atoi(buf + off) of avr-libc: leading white space, an optional sign, then
\* decimal digits up to the first other character, accumulated in an int
\* without overflow detection
Atoi(buf, off) ==
  LET i == SkipSpace(buf, off + 1)
  IN  IF i <= Len(buf) /\ buf[i] = "-" THEN I16(0 - AtoiDigits(buf, i + 1, 0))
      ELSE IF i <= Len(buf) /\ buf[i] = "+" THEN I16(AtoiDigits(buf, i + 1, 0))
      ELSE I16(AtoiDigits(buf, i, 0))

(***************************************************************************)
(* The inverter module (inverter_module_2.ino)                            *)
(***************************************************************************)
VARIABLES
  id,            \* module id read from the DIP switches
  state,         \* finite state machine, S0..S5
  pwm,           \* current PWM (duty) value, uint16_t
  OCR1B,         \* hardware duty register of timer 1
  error_code,
  max_power,     \* user-configured power limit in watts, uint16_t
  eeprom,        \* EEPROM cells, address -> byte
  SYS_ENABLE, SYS_OUTPUT, SYS_FAULT, FAN_DRIVE,   \* output lines
  flag_over,     \* set by the capacitor-threshold interrupt
  timeout_pause, timeout_temp,
  temperature,   \* static local of loop()
  direction, last_power,                          \* static locals of loop()
  cli, cli_pos,  \* command line buffer
  voltage, current, power, cap_voltage,           \* locals of loop()
  now,           \* millis()
  pc,            \* position of the module in loop()
  rx,            \* bytes waiting in the serial receive buffer
  tx,            \* responses written to the serial port in this iteration
  handled,       \* command codes dispatched in this iteration
  fsm_in,        \* state at the start of the FSM step of this iteration
  loop_in        \* state at the top of this iteration

modvars == <<id, state, pwm, OCR1B, error_code, max_power, eeprom, SYS_ENABLE,
             SYS_OUTPUT, SYS_FAULT, FAN_DRIVE, flag_over, timeout_pause,
             timeout_temp, temperature, direction, last_power, cli, cli_pos,
             voltage, current, power, cap_voltage, now, pc, rx, tx, handled,
             fsm_in, loop_in>>

\* voltage = (float)voltage_sample/1024.0*VREF*(R1+R2)/R2, in mV
\* (VREF*(R1+R2)/R2 = 5*106800/6800 = 1335/17)
VoltageOf(sample) == (sample * 1335000) \div 17408

\* current = ((float)current_sample/1024.0*VREF - 0.47) * 2.69, in mA
CurrentOf(sample) == (((sample * 5000) \div 1024 - 470) * 269) \div 100

\* power = voltage*current, in mW
PowerOf(v, a) == (v * a) \div 1000

\* Serial.print(float): two decimals, rounded; the argument is in 1/1000
Print2(x) == IF x >= 0 THEN (x + 5) \div 10 ELSE 0 - ((5 - x) \div 10)

\* the persisted max-power byte is scaled by 2; the lower bound is enforced
BootMaxPower(byte) ==
  IF byte * 2 < MIN_MAX_POWER THEN MIN_MAX_POWER ELSE byte * 2

\* setup(): the state after construction, for DIP switch setting d and the
\* EEPROM content e
ModuleBoot(d, e) ==
  /\ id = d
  /\ eeprom = e
  /\ max_power = BootMaxPower(e[EEPROM_ADDRESS_MAX_POWER])
  /\ state = IF e[EEPROM_ADDRESS_HALTED] # 0 THEN S5 ELSE S0
  /\ pwm = 0
  /\ OCR1B = 0
  /\ error_code = ERROR_NONE
  /\ SYS_ENABLE = 0
  /\ SYS_OUTPUT = 0
  /\ SYS_FAULT = 1
  /\ FAN_DRIVE = 0
  /\ flag_over = FALSE
  /\ timeout_pause = 0
  /\ timeout_temp = 0
  /\ temperature = 0
  /\ direction = -1
  /\ last_power = 0
  /\ cli = [i \in 1..LINE_LENGTH |-> NUL]
  /\ cli_pos = 0
  /\ voltage = 0
  /\ current = 0
  /\ power = 0
  /\ cap_voltage = 0
  /\ now = 0
  /\ pc = "begin"
  /\ rx = <<>>
  /\ tx = <<>>
  /\ handled = {}
  /\ fsm_in = IF e[EEPROM_ADDRESS_HALTED] # 0 THEN S5 ELSE S0
  /\ loop_in = IF e[EEPROM_ADDRESS_HALTED] # 0 THEN S5 ELSE S0

\* a power cycle or a reset of the processor: setup() runs again, on the
\* DIP switch setting and the EEPROM content the module has at that moment
PowerCycle ==
  /\ max_power' = BootMaxPower(eeprom[EEPROM_ADDRESS_MAX_POWER])
  /\ state' = IF eeprom[EEPROM_ADDRESS_HALTED] # 0 THEN S5 ELSE S0
  /\ pwm' = 0
  /\ OCR1B' = 0
  /\ error_code' = ERROR_NONE
  /\ SYS_ENABLE' = 0
  /\ SYS_OUTPUT' = 0
  /\ SYS_FAULT' = 1
  /\ FAN_DRIVE' = 0
  /\ flag_over' = FALSE
  /\ timeout_pause' = 0
  /\ timeout_temp' = 0
  /\ temperature' = 0
  /\ direction' = -1
  /\ last_power' = 0
  /\ cli' = [i \in 1..LINE_LENGTH |-> NUL]
  /\ cli_pos' = 0
  /\ voltage' = 0
  /\ current' = 0
  /\ power' = 0
  /\ cap_voltage' = 0
  /\ now' = 0
  /\ pc' = "begin"
  /\ rx' = <<>>
  /\ tx' = <<>>
  /\ handled' = {}
  /\ fsm_in' = IF eeprom[EEPROM_ADDRESS_HALTED] # 0 THEN S5 ELSE S0
  /\ loop_in' = IF eeprom[EEPROM_ADDRESS_HALTED] # 0 THEN S5 ELSE S0
  /\ UNCHANGED <<id, eeprom>>

\* over_int(): the capacitor voltage reached the operating threshold
over_int ==
  /\ flag_over' = TRUE
  /\ UNCHANGED <<id, state, pwm, OCR1B, error_code, max_power, eeprom,
                 SYS_ENABLE, SYS_OUTPUT, SYS_FAULT, FAN_DRIVE, timeout_pause,
                 timeout_temp, temperature, direction, last_power, cli,
                 cli_pos, voltage, current, power, cap_voltage, now, pc, rx,
                 tx, handled, fsm_in, loop_in>>

\* Top of loop(): the temperature poll and fan control every 10 s, the
\* analogue samples, and the bytes that arrived on the serial line.
\* rs: readings <<voltage sample, current sample, capacitor sample>>;
\* ts: temperature readings; ls: command lines
\* dt: the duration of the previous iteration
LoopBeginAfter(dt, rs, ts, ls) ==
  /\ pc = "begin"
  /\ now + dt <= MaxIterations * LoopMs
  /\ now' = Later(now, dt)
  /\ IF After(now', Later(timeout_temp, 10000))
     THEN \E t \in ts :
            /\ temperature' = t
            /\ FAN_DRIVE' = IF t > FAN_ON_TEMP THEN 1
                            ELSE IF t < FAN_OFF_TEMP THEN 0 ELSE FAN_DRIVE
            /\ timeout_temp' = now'
     ELSE UNCHANGED <<temperature, FAN_DRIVE, timeout_temp>>
  /\ \E r \in rs :
       /\ voltage' = VoltageOf(r[1])
       /\ current' = CurrentOf(r[2])
       /\ power' = PowerOf(VoltageOf(r[1]), CurrentOf(r[2]))
       /\ cap_voltage' = r[3]
  /\ rx' \in ls \cup {<<>>}
  /\ loop_in' = state
  /\ pc' = "serial"
  /\ UNCHANGED <<id, state, pwm, OCR1B, error_code, max_power, eeprom,
                 SYS_ENABLE, SYS_OUTPUT, SYS_FAULT, flag_over, timeout_pause,
                 direction, last_power, cli, cli_pos, tx, handled, fsm_in>>

LoopBegin(rs, ts, ls) == LoopBeginAfter(LoopMs, rs, ts, ls)

\* fan_speed(): 0 on a stalled fan, else the measured rpm
FanRpms == {0, 1500}

\* the byte Serial.read() returns next
NextByte == Head(rx)

\* (cli_pos == LINE_LENGTH-1) || (cli[cli_pos] == ';')
LineEnds == cli_pos = LINE_LENGTH - 1 \/ NextByte = ";"

\* the buffer after cli[cli_pos] = '\0'
Terminated == [cli EXCEPT ![cli_pos + 1] = NUL]

\* (cli_pos > 1) && (atoi(cli+1) == id)
Addressed == cli_pos > 1 /\ Atoi(Terminated, 1) = id

\* the command code cli[0] of a complete line addressed to this module
Dispatch(code) ==
  /\ pc = "serial"
  /\ rx # <<>>
  /\ NextByte \notin Space
  /\ LineEnds
  /\ Addressed
  /\ cli[1] = code

\* every command: the line is consumed and the buffer restarts
Consumed(code) ==
  /\ cli' = Terminated
  /\ cli_pos' = 0
  /\ rx' = Tail(rx)
  /\ handled' = handled \cup {code}
  /\ UNCHANGED <<id, FAN_DRIVE, SYS_FAULT, flag_over, timeout_temp,
                 temperature, direction, last_power, voltage, current, power,
                 cap_voltage, now, pc, fsm_in, loop_in>>

\* a byte that does not complete a line: white space is dropped after it
\* was stored at cli[cli_pos], any other byte is kept
SerialByte ==
  /\ pc = "serial"
  /\ rx # <<>>
  /\ NextByte \in Space \/ ~LineEnds
  /\ cli' = [cli EXCEPT ![cli_pos + 1] = NextByte]
  /\ cli_pos' = IF NextByte \in Space THEN cli_pos ELSE cli_pos + 1
  /\ rx' = Tail(rx)
  /\ UNCHANGED <<id, state, pwm, OCR1B, error_code, max_power, eeprom,
                 SYS_ENABLE, SYS_OUTPUT, SYS_FAULT, FAN_DRIVE, flag_over,
                 timeout_pause, timeout_temp, temperature, direction,
                 last_power, voltage, current, power, cap_voltage, now, pc,
                 tx, handled, fsm_in, loop_in>>

\* a complete line that is not addressed to this module or carries no known
\* command code
LineDropped ==
  /\ pc = "serial"
  /\ rx # <<>>
  /\ NextByte \notin Space
  /\ LineEnds
  /\ ~(Addressed /\ cli[1] \in {"i", "h", "s", "r", "p"})
  /\ cli' = Terminated
  /\ cli_pos' = 0
  /\ rx' = Tail(rx)
  /\ UNCHANGED <<id, state, pwm, OCR1B, error_code, max_power, eeprom,
                 SYS_ENABLE, SYS_OUTPUT, SYS_FAULT, FAN_DRIVE, flag_over,
                 timeout_pause, timeout_temp, temperature, direction,
                 last_power, voltage, current, power, cap_voltage, now, pc,
                 tx, handled, fsm_in, loop_in>>

\* case 'i': the information line, then the error line
CmdInfo ==
  /\ Dispatch("i")
  /\ \E rpm \in FanRpms :
       tx' = tx \o << <<"i", id, state, pwm, Print2(voltage), Print2(current),
                        Print2(power), cap_voltage * 100,
                        temperature * 10, rpm>>,
                      <<"e", id, error_code>> >>
  /\ Consumed("i")
  /\ UNCHANGED <<state, pwm, OCR1B, error_code, max_power, eeprom,
                 SYS_ENABLE, SYS_OUTPUT, timeout_pause>>

\* a Halt that leaves the relay as it is
CmdHaltKeepsRelay ==
  /\ Dispatch("h")
  /\ OCR1B' = 0
  /\ SYS_ENABLE' = 0
  /\ eeprom' = IF state # S5
               THEN [eeprom EXCEPT ![EEPROM_ADDRESS_HALTED] = 1]
               ELSE eeprom
  /\ state' = S5
  /\ pwm' = 0
  /\ Consumed("h")
  /\ UNCHANGED <<error_code, max_power, timeout_pause, tx, SYS_OUTPUT>>

\* a Halt that also clears the error code
CmdHaltClears ==
  /\ Dispatch("h")
  /\ OCR1B' = 0
  /\ SYS_ENABLE' = 0
  /\ SYS_OUTPUT' = 0
  /\ eeprom' = IF state # S5
               THEN [eeprom EXCEPT ![EEPROM_ADDRESS_HALTED] = 1]
               ELSE eeprom
  /\ state' = S5
  /\ pwm' = 0
  /\ error_code' = ERROR_NONE
  /\ Consumed("h")
  /\ UNCHANGED <<max_power, timeout_pause, tx>>

\* case 'h': halt
CmdHalt ==
  /\ Dispatch("h")
  /\ OCR1B' = 0
  /\ SYS_ENABLE' = 0
  /\ SYS_OUTPUT' = 0
  /\ eeprom' = IF state # S5
               THEN [eeprom EXCEPT ![EEPROM_ADDRESS_HALTED] = 1]
               ELSE eeprom
  /\ state' = S5
  /\ pwm' = 0
  /\ Consumed("h")
  /\ UNCHANGED <<error_code, max_power, timeout_pause, tx>>

\* a Start that keeps the error code
CmdStartKeepsError ==
  /\ Dispatch("s")
  /\ eeprom' = IF eeprom[EEPROM_ADDRESS_HALTED] # 0
               THEN [eeprom EXCEPT ![EEPROM_ADDRESS_HALTED] = 0]
               ELSE eeprom
  /\ state' = S0
  /\ pwm' = 0
  /\ timeout_pause' = now
  /\ Consumed("s")
  /\ UNCHANGED <<OCR1B, max_power, SYS_ENABLE, SYS_OUTPUT, tx, error_code>>

\* a Start that leaves the latch as it is
CmdStartKeepsLatch ==
  /\ Dispatch("s")
  /\ state' = S0
  /\ pwm' = 0
  /\ timeout_pause' = now
  /\ error_code' = ERROR_NONE
  /\ Consumed("s")
  /\ UNCHANGED <<OCR1B, max_power, SYS_ENABLE, SYS_OUTPUT, tx, eeprom>>

\* case 's': start
CmdStart ==
  /\ Dispatch("s")
  /\ eeprom' = IF eeprom[EEPROM_ADDRESS_HALTED] # 0
               THEN [eeprom EXCEPT ![EEPROM_ADDRESS_HALTED] = 0]
               ELSE eeprom
  /\ state' = S0
  /\ pwm' = 0
  /\ timeout_pause' = now
  /\ error_code' = ERROR_NONE
  /\ Consumed("s")
  /\ UNCHANGED <<OCR1B, max_power, SYS_ENABLE, SYS_OUTPUT, tx>>

\* a Reset that starts the module whatever the latch says
CmdResetStarts ==
  /\ Dispatch("r")
  /\ OCR1B' = 0
  /\ SYS_ENABLE' = 0
  /\ SYS_OUTPUT' = 0
  /\ state' = S0
  /\ pwm' = 0
  /\ timeout_pause' = now
  /\ error_code' = ERROR_NONE
  /\ Consumed("r")
  /\ UNCHANGED <<max_power, eeprom, tx>>

\* case 'r': reset
CmdReset ==
  /\ Dispatch("r")
  /\ OCR1B' = 0
  /\ SYS_ENABLE' = 0
  /\ SYS_OUTPUT' = 0
  /\ state' = IF eeprom[EEPROM_ADDRESS_HALTED] # 0 THEN S5 ELSE S0
  /\ pwm' = 0
  /\ timeout_pause' = now
  /\ error_code' = ERROR_NONE
  /\ Consumed("r")
  /\ UNCHANGED <<max_power, eeprom, tx>>

\* the limit a 'p' line asks for: uint16_t mp = atoi(cli+3)
RequestedPower == U16(Atoi(Terminated, 3))

\* (mp >= MIN_MAX_POWER) && (mp <= MAX_POWER)
PowerAccepted(mp) == mp >= MIN_MAX_POWER /\ mp <= MAX_POWER

\* case 'p': set the user-defined power limit
CmdSetPower ==
  /\ Dispatch("p")
  /\ IF PowerAccepted(RequestedPower) /\ RequestedPower # max_power
     THEN /\ max_power' = RequestedPower
          /\ eeprom' = [eeprom EXCEPT
                          ![EEPROM_ADDRESS_MAX_POWER] = RequestedPower \div 2]
     ELSE UNCHANGED <<max_power, eeprom>>
  /\ Consumed("p")
  /\ UNCHANGED <<state, pwm, OCR1B, error_code, SYS_ENABLE, SYS_OUTPUT,
                 timeout_pause, tx>>

\* S2Ramp with the back-off applied at every duty
S2RampUnguarded(p, v) ==
  IF p < 275 /\ v > 18000 THEN U16(p + 1)
  ELSE IF v < 18000 THEN U16(p - 5)
  ELSE p

\* S3Direction with the power clamp applied after the zero-duty floor
S3DirectionClampLast(v, a, w, lw, d, mp, p) ==
  LET plateau == IF v > 50000 /\ a < 500 THEN 1
                 ELSE IF w < lw THEN 0 - d ELSE d
      floored == IF p = 0 THEN 1 ELSE plateau
  IN  IF w > mp * 1000 \/ w > MAX_POWER * 1000 THEN -1 ELSE floored

\* S2: if ((pwm < 275) && (voltage > 18.0)) pwm++;
\*     else if ((pwm >= 5) && (voltage < 18.0)) pwm -= 5;
S2Ramp(p, v) ==
  IF p < 275 /\ v > 18000 THEN U16(p + 1)
  ELSE IF p >= 5 /\ v < 18000 THEN U16(p - 5)
  ELSE p

\* S3: the direction of travel of perturb and observe, for the readings
\* v, a, w, the previous power lw, the previous direction d, the user limit
\* mp (watts) and the duty p
S3Direction(v, a, w, lw, d, mp, p) ==
  LET plateau == IF v > 50000 /\ a < 500 THEN 1
                 ELSE IF w < lw THEN 0 - d ELSE d
      clamped == IF w > mp * 1000 \/ w > MAX_POWER * 1000 THEN -1 ELSE plateau
  IN  IF p = 0 THEN 1 ELSE clamped

\* S3Apply with the lower bound included: pwm+direction >= 20
S3ApplyInclusive(p, d) ==
  IF d < 0
  THEN IF U16(p + d) >= 20 THEN U16(p + d) ELSE p
  ELSE IF U16(p + d) < 315 THEN U16(p + d) ELSE p

\* S3: if (direction < 0) { if (pwm+direction > 20) pwm += direction; }
\*     else { if (pwm+direction < 315) pwm += direction; }
\* pwm+direction is an unsigned 16-bit sum
S3Apply(p, d) ==
  IF d < 0
  THEN IF U16(p + d) > 20 THEN U16(p + d) ELSE p
  ELSE IF U16(p + d) < 315 THEN U16(p + d) ELSE p

\* the FSM step is taken once the serial receive buffer is empty
FsmAt(s) ==
  /\ pc = "serial"
  /\ rx = <<>>
  /\ state = s
  /\ fsm_in' = s
  /\ pc' = "interlock"
  /\ UNCHANGED <<id, OCR1B, error_code, max_power, eeprom, SYS_FAULT,
                 FAN_DRIVE, timeout_temp, temperature, cli, cli_pos, voltage,
                 current, power, cap_voltage, now, rx, tx, handled, loop_in>>

\* case S0: wait 3000 ms
FsmS0 ==
  /\ FsmAt(S0)
  /\ state' = IF After(now, Later(timeout_pause, 3000)) THEN S1 ELSE S0
  /\ UNCHANGED <<pwm, SYS_ENABLE, SYS_OUTPUT, flag_over, timeout_pause,
                 direction, last_power>>

\* case S1: wait for the panel voltage
FsmS1 ==
  /\ FsmAt(S1)
  /\ IF voltage > 18000
     THEN /\ SYS_ENABLE' = 1
          /\ state' = S2
          /\ pwm' = 0
     ELSE UNCHANGED <<SYS_ENABLE, state, pwm>>
  /\ UNCHANGED <<SYS_OUTPUT, flag_over, timeout_pause, direction, last_power>>

\* FsmS2 that connects the output on the capacitor voltage alone
FsmS2AnyFlag ==
  /\ FsmAt(S2)
  /\ LET low == voltage < 15000
         connect == cap_voltage > 320
     IN  /\ SYS_ENABLE' = IF low THEN 0 ELSE SYS_ENABLE
         /\ timeout_pause' = IF low THEN now ELSE timeout_pause
         /\ SYS_OUTPUT' = IF connect THEN 1 ELSE SYS_OUTPUT
         /\ flag_over' = IF connect THEN FALSE ELSE flag_over
         /\ state' = IF connect THEN S3 ELSE IF low THEN S0 ELSE S2
         /\ pwm' = S2Ramp(IF low THEN 0 ELSE pwm, voltage)
  /\ UNCHANGED <<direction, last_power>>

\* case S2: boost; the three statements of the case run one after another
FsmS2 ==
  /\ FsmAt(S2)
  /\ LET low == voltage < 15000
         connect == flag_over /\ cap_voltage > 320
     IN  /\ SYS_ENABLE' = IF low THEN 0 ELSE SYS_ENABLE
         /\ timeout_pause' = IF low THEN now ELSE timeout_pause
         /\ SYS_OUTPUT' = IF connect THEN 1 ELSE SYS_OUTPUT
         /\ flag_over' = IF connect THEN FALSE ELSE flag_over
         /\ state' = IF connect THEN S3 ELSE IF low THEN S0 ELSE S2
         /\ pwm' = S2Ramp(IF low THEN 0 ELSE pwm, voltage)
  /\ UNCHANGED <<direction, last_power>>

\* case S3: track; the exit on low voltage is followed by the MPPT step
FsmS3 ==
  /\ FsmAt(S3)
  /\ LET low == voltage < 15000
         p == IF low THEN 0 ELSE pwm
         d == S3Direction(voltage, current, power, last_power, direction,
                          max_power, p)
     IN  /\ SYS_ENABLE' = IF low THEN 0 ELSE SYS_ENABLE
         /\ SYS_OUTPUT' = IF low THEN 0 ELSE SYS_OUTPUT
         /\ timeout_pause' = IF low THEN now ELSE timeout_pause
         /\ state' = IF low THEN S0 ELSE S3
         /\ direction' = d
         /\ last_power' = power
         /\ pwm' = S3Apply(p, d)
  /\ UNCHANGED flag_over

\* FsmIdle with a fault that clears by itself: S4 restarts in S0
FsmIdleRestart ==
  /\ state \in {S4, S5}
  /\ FsmAt(state)
  /\ state' = IF state = S4 THEN S0 ELSE state
  /\ UNCHANGED <<pwm, SYS_ENABLE, SYS_OUTPUT, flag_over, timeout_pause,
                 direction, last_power>>

\* case S4, case S5: do nothing
FsmIdle ==
  /\ state \in {S4, S5}
  /\ FsmAt(state)
  /\ UNCHANGED <<state, pwm, SYS_ENABLE, SYS_OUTPUT, flag_over, timeout_pause,
                 direction, last_power>>

\* a trip that leaves the output relay as it is
TripKeepsRelay(r, cond, code) ==
  IF cond
  THEN [state |-> S4, pwm |-> 0, enable |-> 0, output |-> r.output,
        error |-> code]
  ELSE r

\* one interlock: if its condition holds, shut down into S4 with its code
Trip(r, cond, code) ==
  IF cond
  THEN [state |-> S4, pwm |-> 0, enable |-> 0, output |-> 0, error |-> code]
  ELSE r

\* Interlocked with the check of a low capacitor voltage made last
InterlockedCapLowLast(r, cap, a, t) ==
  LET r2 == Trip(r, r.state # S4 /\ cap > 370, ERROR_CAP_VOLTAGE_HIGH)
      r3 == Trip(r2, r2.state = S2 /\ r2.pwm > 1 /\ r2.pwm < 5 /\ a > 2000,
                 ERROR_OVER_CURRENT)
      r4 == Trip(r3, r3.state # S4 /\ a < -100, ERROR_UNDER_CURRENT)
      r5 == Trip(r4, r4.state # S4 /\ t > MAX_TEMPERATURE, ERROR_OVER_TEMP)
      r6 == Trip(r5, r5.state # S4 /\ t < MIN_TEMPERATURE, ERROR_UNDER_TEMP)
  IN  Trip(r6, r6.state # S4 /\ cap < 12, ERROR_CAP_VOLTAGE_LOW)

\* Interlocked with the over-current check at every duty
InterlockedAnyDuty(r, cap, a, t) ==
  LET r1 == Trip(r, r.state # S4 /\ cap < 12, ERROR_CAP_VOLTAGE_LOW)
      r2 == Trip(r1, r1.state # S4 /\ cap > 370, ERROR_CAP_VOLTAGE_HIGH)
      r3 == Trip(r2, r2.state = S2 /\ a > 2000, ERROR_OVER_CURRENT)
      r4 == Trip(r3, r3.state # S4 /\ a < -100, ERROR_UNDER_CURRENT)
      r5 == Trip(r4, r4.state # S4 /\ t > MAX_TEMPERATURE, ERROR_OVER_TEMP)
  IN  Trip(r5, r5.state # S4 /\ t < MIN_TEMPERATURE, ERROR_UNDER_TEMP)

\* Interlocked without the check of a low capacitor voltage
InterlockedNoCapLow(r, cap, a, t) ==
  LET r2 == Trip(r, r.state # S4 /\ cap > 370, ERROR_CAP_VOLTAGE_HIGH)
      r3 == Trip(r2, r2.state = S2 /\ r2.pwm > 1 /\ r2.pwm < 5 /\ a > 2000,
                 ERROR_OVER_CURRENT)
      r4 == Trip(r3, r3.state # S4 /\ a < -100, ERROR_UNDER_CURRENT)
      r5 == Trip(r4, r4.state # S4 /\ t > MAX_TEMPERATURE, ERROR_OVER_TEMP)
  IN  Trip(r5, r5.state # S4 /\ t < MIN_TEMPERATURE, ERROR_UNDER_TEMP)

\* Interlocked with every check made on the state before the checks, so
\* that a later check overwrites an earlier one
InterlockedLastWins(r, cap, a, t) ==
  LET r1 == Trip(r, r.state # S4 /\ cap < 12, ERROR_CAP_VOLTAGE_LOW)
      r2 == Trip(r1, r.state # S4 /\ cap > 370, ERROR_CAP_VOLTAGE_HIGH)
      r3 == Trip(r2, r.state = S2 /\ r.pwm > 1 /\ r.pwm < 5 /\ a > 2000,
                 ERROR_OVER_CURRENT)
      r4 == Trip(r3, r.state # S4 /\ a < -100, ERROR_UNDER_CURRENT)
      r5 == Trip(r4, r.state # S4 /\ t > MAX_TEMPERATURE, ERROR_OVER_TEMP)
  IN  Trip(r5, r.state # S4 /\ t < MIN_TEMPERATURE, ERROR_UNDER_TEMP)

\* the six checks, in the order of the code, each on the result of the
\* checks before it
Interlocked(r, cap, a, t) ==
  LET r1 == Trip(r, r.state # S4 /\ cap < 12, ERROR_CAP_VOLTAGE_LOW)
      r2 == Trip(r1, r1.state # S4 /\ cap > 370, ERROR_CAP_VOLTAGE_HIGH)
      r3 == Trip(r2, r2.state = S2 /\ r2.pwm > 1 /\ r2.pwm < 5 /\ a > 2000,
                 ERROR_OVER_CURRENT)
      r4 == Trip(r3, r3.state # S4 /\ a < -100, ERROR_UNDER_CURRENT)
      r5 == Trip(r4, r4.state # S4 /\ t > MAX_TEMPERATURE, ERROR_OVER_TEMP)
  IN  Trip(r5, r5.state # S4 /\ t < MIN_TEMPERATURE, ERROR_UNDER_TEMP)

\* the rest of loop(): the interlocks, the fault indicator and the duty
\* register; the locals of loop() end with the iteration
Interlocks ==
  /\ pc = "interlock"
  /\ LET r == Interlocked([state |-> state, pwm |-> pwm,
                           enable |-> SYS_ENABLE, output |-> SYS_OUTPUT,
                           error |-> error_code],
                          cap_voltage, current, temperature)
     IN  /\ state' = r.state
         /\ pwm' = r.pwm
         /\ SYS_ENABLE' = r.enable
         /\ SYS_OUTPUT' = r.output
         /\ error_code' = r.error
         /\ SYS_FAULT' = IF r.state = S4 THEN 0 ELSE 1
         /\ OCR1B' = r.pwm
         /\ fsm_in' = r.state
         /\ loop_in' = r.state
  /\ voltage' = 0
  /\ current' = 0
  /\ power' = 0
  /\ cap_voltage' = 0
  /\ tx' = <<>>
  /\ handled' = {}
  /\ pc' = "begin"
  /\ UNCHANGED <<id, max_power, eeprom, FAN_DRIVE, flag_over, timeout_pause,
                 timeout_temp, temperature, direction, last_power, cli,
                 cli_pos, now, rx>>

(***************************************************************************)
(* The environment of a module                                            *)
(***************************************************************************)
DigitChar(n) ==
  CASE n = 0 -> "0" [] n = 1 -> "1" [] n = 2 -> "2" [] n = 3 -> "3"
    [] n = 4 -> "4" [] n = 5 -> "5" [] n = 6 -> "6" [] n = 7 -> "7"
    [] n = 8 -> "8" [] n = 9 -> "9"

\* Serial.print(n) of a non-negative integer
RECURSIVE Decimal(_)
Decimal(n) ==
  IF n < 10 THEN <<DigitChar(n)>>
  ELSE Decimal(n \div 10) \o <<DigitChar(n % 10)>>

\* the lines the master sends to module d
MasterLines(d) ==
  { <<"i">> \o Decimal(d) \o <<";">>,
    <<"h">> \o Decimal(d) \o <<";">>,
    <<"s">> \o Decimal(d) \o <<";">>,
    <<"r">> \o Decimal(d) \o <<";">>,
    <<"p">> \o Decimal(d) \o <<":">> \o Decimal(100) \o <<";">> }

\* the master's information request to the next module
OtherPoll(d) == { <<"i">> \o Decimal(d + 1) \o <<";">> }

\* lines on the bus that are meant for another module, or for none
OtherLines(d) ==
  { <<"h">> \o Decimal(d + 1) \o <<";">>,
    <<"h">> \o Decimal(d + 65536) \o <<";">>,
    <<"p">> \o Decimal(d) \o <<":">> \o Decimal(30) \o <<";">>,
    <<"h", ";">>,
    <<"h", "x", ";">> }

\* ADC samples: panel voltage 130 = 9.97 V, 248 = 19.02 V; panel current
\* 119 = 0.30 A; capacitor voltage in volts
Readings ==
  { <<248, 119, 200>>, <<248, 119, 325>>, <<130, 119, 200>>,
    <<130, 119, 325>>, <<248, 119, 11>> }
\* readings of the temperature sensor, in tenths of a degree
Temperatures == {250}

\* EEPROM images at power-up: erased, configured, configured and halted
EepromImages ==
  { [a \in {0, 1} |-> IF a = EEPROM_ADDRESS_MAX_POWER THEN m ELSE h] :
      <<m, h>> \in {<<255, 255>>, <<200, 0>>, <<200, 1>>} }

ModuleInit == \E d \in 0..MaxModuleId, e \in EepromImages : ModuleBoot(d, e)

(***************************************************************************)
(* The master controller (unnamed/part_000)                               *)
(***************************************************************************)
\* temperatures of the hot water cylinder, in tenths of a degree
MAX_HWC_TEMP == 750
MIN_HWC_TEMP == -100
EXTREME_HWC_TEMP == 800
MAINS_SEQUENCE_LENGTH == 30
MASTER_LINE_LENGTH == 80
BUTTON_NONE == 0
BUTTON_LEFT == 1
BUTTON_RIGHT == 2
BUTTON_UP == 3
BUTTON_DOWN == 4
BUTTON_SELECT == 5
MODE_MIN == 0
MODE_MAX == 5
MODE_DASH_MULT == 0
MODE_DASH_SINGLE == 1
MODE_RESET == 3
MODE_HALT == 4
MODE_SET_POWER == 5
MODULES == 4
TX_INTERVAL == 15000

\* the clock horizon of the master, in loop iterations of MasterLoopMs each
MasterMaxIterations == 5
\* duration of one iteration of the master's loop() in ms (the button
\* delays, the display and the radio transmission), as seen by millis()
MasterLoopMs == 2501
\* millis() when setup() returns: delay(2000) and delay(1000)
MasterBootMs == 2000 + 1000

VARIABLES
  mod_display,   \* module id presently displayed
  mod_st,        \* telemetry record of each module, 0..MODULES-1
  line,          \* the characters line[0..pos-1] of the response buffer
  last_request,
  master_timeout_temp,
  hwc_temp,
  master_max_power,
  mains_pos, mains_neg,
  poll_id,       \* static id of loop(): module presently requested
  mode,          \* static mode of loop()
  master_now,    \* millis() of the master
  master_pc,     \* position of the master in loop()
  master_rx,     \* bytes waiting in the master's serial receive buffer
  master_tx,     \* commands written to the serial port in this iteration
  rf_tx          \* radio packets sent in this iteration

mastervars == <<mod_display, mod_st, line, last_request, master_timeout_temp,
                hwc_temp, master_max_power, mains_pos, mains_neg, poll_id,
                mode, master_now, master_pc, master_rx, master_tx, rf_tx>>

\* the timer interrupt: its position in the mains sequence and the two
\* auxiliary drive lines
VARIABLES mains_counter, SYS_VIA, SYS_VIB
timervars == <<mains_counter, SYS_VIA, SYS_VIB>>

\* the interleaving of the interrupt with the fail-safe loop: the
\* interrupt's position between its two digitalWrite calls, the loop
\* variable i of the clearing loop, and which of the two stores of the
\* entry i is done
VARIABLES isr_pc, zero_i, zero_done
tearvars == <<isr_pc, zero_i, zero_done>>

\* uint8_t pos: the write position in line[]
pos == Len(line)

\* atof(buf + off), in 1/1000: leading white space, an optional sign,
\* digits, an optional fraction
RECURSIVE AtofInt(_, _, _)
AtofInt(buf, i, acc) ==
  IF i <= Len(buf) /\ buf[i] \in Digits
  THEN AtofInt(buf, i + 1, acc * 10 + DigitVal(buf[i]))
  ELSE <<acc, i>>

RECURSIVE AtofFrac(_, _, _, _)
AtofFrac(buf, i, scale, acc) ==
  IF i <= Len(buf) /\ buf[i] \in Digits
  THEN AtofFrac(buf, i + 1, scale \div 10, acc + DigitVal(buf[i]) * scale)
  ELSE acc

AtofUnsigned(buf, i) ==
  LET w == AtofInt(buf, i, 0)
  IN  w[1] * 1000 + (IF w[2] <= Len(buf) /\ buf[w[2]] = "."
                     THEN AtofFrac(buf, w[2] + 1, 100, 0) ELSE 0)

Atof(buf, off) ==
  LET i == SkipSpace(buf, off + 1)
  IN  IF i <= Len(buf) /\ buf[i] = "-" THEN 0 - AtofUnsigned(buf, i + 1)
      ELSE IF i <= Len(buf) /\ buf[i] = "+" THEN AtofUnsigned(buf, i + 1)
      ELSE AtofUnsigned(buf, i)

\* next_value(p): the position after the next ';', 0 (NULL) if the string
\* ends first; positions are sequence indices
RECURSIVE next_value(_, _)
next_value(buf, p) ==
  IF p > Len(buf) THEN 0
  ELSE IF buf[p] = ";" THEN p + 1
  ELSE next_value(buf, p + 1)

\* the zero-initialised telemetry record
ModStZero ==
  [v |-> 0, a |-> 0, w |-> 0, c |-> 0, pwm |-> 0, temp |-> 0, fan |-> 0,
   state |-> 0, error |-> 0, last_tx |-> 0, last_reset |-> 0]

\* parse(), case 'e'
ParseError(l, st) ==
  LET module == Atoi(l, 2)
      p == next_value(l, 3)
  IN  IF module < 0 \/ module >= MODULES THEN [ret |-> -1, st |-> st]
      ELSE IF p = 0 THEN [ret |-> -1, st |-> st]
      ELSE [ret |-> module,
            st |-> [st EXCEPT ![module].error = Atoi(l, p - 1)]]

\* parse(), case 'i': each field is stored as soon as it was found
ParseInfo(l, st) ==
  LET module == Atoi(l, 2)
      p1 == next_value(l, 3)
      s1 == [st EXCEPT ![module].state = Atoi(l, p1 - 1)]
      p2 == next_value(l, p1)
      s2 == [s1 EXCEPT ![module].pwm = Atoi(l, p2 - 1)]
      p3 == next_value(l, p2)
      s3 == [s2 EXCEPT ![module].v = Atof(l, p3 - 1)]
      p4 == next_value(l, p3)
      s4 == [s3 EXCEPT ![module].a = Atof(l, p4 - 1)]
      p5 == next_value(l, p4)
      s5 == [s4 EXCEPT ![module].w = Atof(l, p5 - 1)]
      p6 == next_value(l, p5)
      s6 == [s5 EXCEPT ![module].c = Atof(l, p6 - 1)]
      p7 == next_value(l, p6)
      s7 == [s6 EXCEPT ![module].temp = Atof(l, p7 - 1)]
      p8 == next_value(l, p7)
      s8 == [s7 EXCEPT ![module].fan = Atoi(l, p8 - 1)]
  IN  IF module < 0 \/ module >= MODULES THEN [ret |-> -1, st |-> st]
      ELSE IF p1 = 0 THEN [ret |-> -1, st |-> st]
      ELSE IF p2 = 0 THEN [ret |-> -1, st |-> s1]
      ELSE IF p3 = 0 THEN [ret |-> -1, st |-> s2]
      ELSE IF p4 = 0 THEN [ret |-> -1, st |-> s3]
      ELSE IF p5 = 0 THEN [ret |-> -1, st |-> s4]
      ELSE IF p6 = 0 THEN [ret |-> -1, st |-> s5]
      ELSE IF p7 = 0 THEN [ret |-> -1, st |-> s6]
      ELSE IF p8 = 0 THEN [ret |-> -1, st |-> s7]
      ELSE [ret |-> module, st |-> s8]

\* parse(): the module id or -1, and the telemetry table it leaves
parse(l, st) ==
  IF Len(l) < 3 THEN [ret |-> -1, st |-> st]
  ELSE IF l[1] = "e" THEN ParseError(l, st)
  ELSE IF l[1] = "i" THEN ParseInfo(l, st)
  ELSE [ret |-> -1, st |-> st]

\* The timer runs from setup() on. It has just completed the sequence: the
\* counter is 0 and both lines show the last entries of the tables.
TimerStarted ==
  /\ mains_counter = 0
  /\ SYS_VIA = 0
  /\ SYS_VIB = 0
  /\ isr_pc = "idle"
  /\ zero_i = 0
  /\ zero_done = "none"

\* ISR(TIMER2_OVF_vect): an expiry of the timer, between any two steps of
\* loop()
TIMER2_OVF ==
  /\ SYS_VIA' = mains_pos[mains_counter]
  /\ SYS_VIB' = mains_neg[mains_counter]
  /\ mains_counter' = IF mains_counter + 1 = MAINS_SEQUENCE_LENGTH THEN 0
                      ELSE mains_counter + 1
  /\ UNCHANGED mastervars

\* setup(): the state after construction, with the first reading t of the
\* cylinder temperature; every module was sent a reset
MasterBoot(t) ==
  /\ mod_display = 0
  /\ mod_st = [i \in 0..(MODULES - 1) |-> ModStZero]
  /\ line = <<>>
  /\ last_request = 0
  /\ master_timeout_temp = 0
  /\ hwc_temp = t
  /\ master_max_power = 400
  /\ mains_pos = [i \in 0..(MAINS_SEQUENCE_LENGTH - 1) |->
                    IF i < 8 THEN 1 ELSE 0]
  /\ mains_neg = [i \in 0..(MAINS_SEQUENCE_LENGTH - 1) |->
                    IF i >= 15 /\ i < 23 THEN 1 ELSE 0]
  /\ poll_id = -1
  /\ mode = MODE_DASH_MULT
  /\ master_now = MasterBootMs
  /\ master_pc = "buttons"
  /\ master_rx = <<>>
  /\ master_tx = [i \in 1..MODULES |-> <<"r", i - 1>>]
  /\ rf_tx = <<>>
  /\ TimerStarted

\* process_select(mode): the command it sends and the mode it returns
process_select(m) ==
  IF m = MODE_RESET
  THEN [tx |-> << <<"r", mod_display>> >>, mode |-> MODE_DASH_SINGLE]
  ELSE IF m = MODE_HALT
  THEN [tx |-> << <<IF mod_st[mod_display].state = 5 THEN "s" ELSE "h",
                    mod_display>> >>,
        mode |-> MODE_DASH_SINGLE]
  ELSE IF m = MODE_SET_POWER
  THEN [tx |-> << <<"p", mod_display, master_max_power>> >>,
        mode |-> MODE_DASH_SINGLE]
  ELSE [tx |-> <<>>, mode |-> m]

\* Top of loop(): read_button() and the switch on the button; bs: buttons,
\* ls: the response lines that may have arrived, dt: the duration of the
\* previous iteration
MasterButtonsAfter(dt, bs, ls) ==
  /\ master_pc = "buttons"
  /\ master_now + dt <= MasterBootMs + MasterMaxIterations * MasterLoopMs
  /\ master_now' = Later(master_now, dt)
  /\ \E b \in bs :
       /\ master_max_power' =
            IF mode = MODE_SET_POWER /\ b = BUTTON_LEFT
            THEN IF U16(master_max_power - 25) < 50 THEN 50
                 ELSE U16(master_max_power - 25)
            ELSE IF mode = MODE_SET_POWER /\ b = BUTTON_RIGHT
            THEN IF U16(master_max_power + 25) > 425 THEN 425
                 ELSE U16(master_max_power + 25)
            ELSE master_max_power
       /\ mod_display' =
            IF mode # MODE_SET_POWER /\ b = BUTTON_LEFT /\ mod_display > 0
            THEN mod_display - 1
            ELSE IF mode # MODE_SET_POWER /\ b = BUTTON_RIGHT
                    /\ mod_display < MODULES - 1
            THEN mod_display + 1
            ELSE mod_display
       /\ mode' = IF b = BUTTON_UP /\ mode > MODE_MIN THEN mode - 1
                  ELSE IF b = BUTTON_DOWN /\ mode < MODE_MAX THEN mode + 1
                  ELSE IF b = BUTTON_SELECT THEN process_select(mode).mode
                  ELSE mode
       /\ master_tx' = IF b = BUTTON_SELECT
                       THEN master_tx \o process_select(mode).tx
                       ELSE master_tx
  /\ master_rx' \in ls \cup {<<>>}
  /\ master_pc' = "poll"
  /\ UNCHANGED <<mod_st, line, last_request, master_timeout_temp, hwc_temp,
                 mains_pos, mains_neg, poll_id, rf_tx>>

MasterButtons(bs, ls) == MasterButtonsAfter(MasterLoopMs, bs, ls)

\* the polling without its pacing: a request in every iteration
MasterPollEvery ==
  /\ master_pc = "poll"
  /\ poll_id' = IF poll_id + 1 >= MODULES THEN 0 ELSE poll_id + 1
  /\ master_tx' = Append(master_tx, <<"i", poll_id'>>)
  /\ last_request' = master_now
  /\ master_pc' = "thermal"
  /\ UNCHANGED <<mod_display, mod_st, line, master_timeout_temp, hwc_temp,
                 master_max_power, mains_pos, mains_neg, mode, master_now,
                 master_rx, rf_tx>>

\* the information request to the next module: if ((millis() -
\* last_request) > 500UL) { if (++id >= MODULES) id = 0; ... }
MasterPoll ==
  /\ master_pc = "poll"
  /\ IF After(Elapsed(master_now, last_request), 500)
     THEN /\ poll_id' = IF poll_id + 1 >= MODULES THEN 0 ELSE poll_id + 1
          /\ master_tx' = Append(master_tx, <<"i", poll_id'>>)
          /\ last_request' = master_now
     ELSE UNCHANGED <<poll_id, master_tx, last_request>>
  /\ master_pc' = "thermal"
  /\ UNCHANGED <<mod_display, mod_st, line, master_timeout_temp, hwc_temp,
                 master_max_power, mains_pos, mains_neg, mode, master_now,
                 master_rx, rf_tx>>

\* the reading the retry loop ends with: up to five conversions, the first
\* above -125 is taken; s: the results of five successive conversions
RECURSIVE HwcRead(_, _)
HwcRead(s, i) ==
  IF s[i] > -1250 \/ i = 5 THEN s[i] ELSE HwcRead(s, i + 1)

\* for (i = 0; i < MODULES; i++) if (mod_st[i].state != 5) { 'h',
\* mod_display, ";" }
RECURSIVE ThermalHalts(_)
ThermalHalts(i) ==
  IF i >= MODULES THEN <<>>
  ELSE (IF mod_st[i].state # 5 THEN << <<"h", mod_display>> >> ELSE <<>>)
       \o ThermalHalts(i + 1)

\* the thermal check with a fail-safe that clears mains_pos only
MasterThermalPosOnly(hs) ==
  /\ master_pc = "thermal"
  /\ IF After(master_now, Later(master_timeout_temp, 10000))
     THEN \E s \in hs :
            LET t == HwcRead(s, 1)
            IN  /\ hwc_temp' = t
                /\ master_tx' = IF t < MIN_HWC_TEMP \/ t > MAX_HWC_TEMP
                                THEN master_tx \o ThermalHalts(0)
                                ELSE master_tx
                /\ IF (t < MIN_HWC_TEMP \/ t > MAX_HWC_TEMP)
                      /\ t > EXTREME_HWC_TEMP
                   THEN /\ mains_pos' = [i \in DOMAIN mains_pos |-> 0]
                        /\ UNCHANGED mains_neg
                   ELSE UNCHANGED <<mains_pos, mains_neg>>
                /\ master_timeout_temp' = master_now
     ELSE UNCHANGED <<hwc_temp, master_tx, mains_pos, mains_neg,
                      master_timeout_temp>>
  /\ master_pc' = "recover"
  /\ UNCHANGED <<mod_display, mod_st, line, last_request, master_max_power,
                 poll_id, mode, master_now, master_rx, rf_tx>>

\* the thermal check, every 10 s; hs: the conversions the sensor may give
MasterThermal(hs) ==
  /\ master_pc = "thermal"
  /\ IF After(master_now, Later(master_timeout_temp, 10000))
     THEN \E s \in hs :
            LET t == HwcRead(s, 1)
            IN  /\ hwc_temp' = t
                /\ master_tx' = IF t < MIN_HWC_TEMP \/ t > MAX_HWC_TEMP
                                THEN master_tx \o ThermalHalts(0)
                                ELSE master_tx
                /\ IF (t < MIN_HWC_TEMP \/ t > MAX_HWC_TEMP)
                      /\ t > EXTREME_HWC_TEMP
                   THEN /\ mains_pos' = [i \in DOMAIN mains_pos |-> 0]
                        /\ mains_neg' = [i \in DOMAIN mains_neg |-> 0]
                   ELSE UNCHANGED <<mains_pos, mains_neg>>
                /\ master_timeout_temp' = master_now
     ELSE UNCHANGED <<hwc_temp, master_tx, mains_pos, mains_neg,
                      master_timeout_temp>>
  /\ master_pc' = "recover"
  /\ UNCHANGED <<mod_display, mod_st, line, last_request, master_max_power,
                 poll_id, mode, master_now, master_rx, rf_tx>>

\* the first write of the interrupt taking its entry half a sequence ahead
IsrWriteAShifted ==
  /\ isr_pc = "idle"
  /\ SYS_VIA' = mains_pos[(mains_counter + 15) % MAINS_SEQUENCE_LENGTH]
  /\ isr_pc' = "lineB"
  /\ UNCHANGED <<mains_counter, SYS_VIB, zero_i, zero_done, mastervars>>

\* ISR(TIMER2_OVF_vect), its first statement: digitalWrite(SYS_VIA,
\* mains_pos[mains_counter]), with line B still showing the entry of the
\* expiry before
IsrWriteA ==
  /\ isr_pc = "idle"
  /\ SYS_VIA' = mains_pos[mains_counter]
  /\ isr_pc' = "lineB"
  /\ UNCHANGED <<mains_counter, SYS_VIB, zero_i, zero_done, mastervars>>

\* the rest of the interrupt: digitalWrite(SYS_VIB,
\* mains_neg[mains_counter]); if (++mains_counter ==
\* MAINS_SEQUENCE_LENGTH) mains_counter = 0;
IsrWriteB ==
  /\ isr_pc = "lineB"
  /\ SYS_VIB' = mains_neg[mains_counter]
  /\ mains_counter' = IF mains_counter + 1 = MAINS_SEQUENCE_LENGTH THEN 0
                      ELSE mains_counter + 1
  /\ isr_pc' = "idle"
  /\ UNCHANGED <<SYS_VIA, zero_i, zero_done, mastervars>>

\* loop() runs with interrupts enabled and the interrupt with interrupts
\* disabled: a statement of loop() executes only between two interrupts
MainRuns == isr_pc = "idle"

\* the thermal check up to its fail-safe loop: above 80.0 C it enters the
\* loop with i = 0, otherwise it ends as MasterThermal does
MasterThermalBegin(hs) ==
  /\ master_pc = "thermal"
  /\ IF After(master_now, Later(master_timeout_temp, 10000))
     THEN \E s \in hs :
            LET t == HwcRead(s, 1)
            IN  /\ hwc_temp' = t
                /\ master_tx' = IF t < MIN_HWC_TEMP \/ t > MAX_HWC_TEMP
                                THEN master_tx \o ThermalHalts(0)
                                ELSE master_tx
                /\ IF (t < MIN_HWC_TEMP \/ t > MAX_HWC_TEMP)
                      /\ t > EXTREME_HWC_TEMP
                   THEN /\ master_pc' = "zeroing"
                        /\ UNCHANGED master_timeout_temp
                   ELSE /\ master_pc' = "recover"
                        /\ master_timeout_temp' = master_now
     ELSE /\ master_pc' = "recover"
          /\ UNCHANGED <<hwc_temp, master_tx, master_timeout_temp>>
  /\ zero_i' = 0
  /\ zero_done' = "none"
  /\ UNCHANGED <<mod_display, mod_st, line, last_request, master_max_power,
                 mains_pos, mains_neg, poll_id, mode, master_now, master_rx,
                 rf_tx, timervars, isr_pc>>

\* one store of mains_pos[i] = mains_neg[i] = 0: the tables are not
\* volatile, so the two stores of an entry reach memory in either order,
\* each of them a single byte written between two interrupts; the second
\* store of the entry is followed by i++
ZeroStore ==
  /\ master_pc = "zeroing"
  /\ zero_i < MAINS_SEQUENCE_LENGTH
  /\ \/ /\ zero_done \in {"none", "neg"}
        /\ mains_pos' = [mains_pos EXCEPT ![zero_i] = 0]
        /\ UNCHANGED mains_neg
        /\ zero_done' = IF zero_done = "none" THEN "pos" ELSE "none"
     \/ /\ zero_done \in {"none", "pos"}
        /\ mains_neg' = [mains_neg EXCEPT ![zero_i] = 0]
        /\ UNCHANGED mains_pos
        /\ zero_done' = IF zero_done = "none" THEN "neg" ELSE "none"
  /\ zero_i' = IF zero_done = "none" THEN zero_i ELSE zero_i + 1
  /\ UNCHANGED <<mod_display, mod_st, line, last_request,
                 master_timeout_temp, hwc_temp, master_max_power, poll_id,
                 mode, master_now, master_pc, master_rx, master_tx, rf_tx,
                 timervars, isr_pc>>

\* the loop ends at i = MAINS_SEQUENCE_LENGTH; timeout_temp = millis()
ZeroEnd ==
  /\ master_pc = "zeroing"
  /\ zero_i = MAINS_SEQUENCE_LENGTH
  /\ master_timeout_temp' = master_now
  /\ master_pc' = "recover"
  /\ zero_i' = 0
  /\ UNCHANGED <<mod_display, mod_st, line, last_request, hwc_temp,
                 master_max_power, mains_pos, mains_neg, poll_id, mode,
                 master_now, master_rx, master_tx, rf_tx, timervars, isr_pc,
                 zero_done>>

\* the trigger without the test of the cached input voltage
AutoResetAnyVoltage(i) ==
  /\ mod_st[i].error = 5
  /\ After(master_now, Later(mod_st[i].last_reset, 10000))

\* (mod_st[i].error == 5) && (mod_st[i].v > 50.0)
\*   && (millis() > mod_st[i].last_reset + 10000UL)
AutoReset(i) ==
  /\ mod_st[i].error = 5
  /\ mod_st[i].v > 50000
  /\ After(master_now, Later(mod_st[i].last_reset, 10000))

RECURSIVE AutoResets(_)
AutoResets(i) ==
  IF i >= MODULES THEN <<>>
  ELSE (IF AutoReset(i) THEN << <<"r", i>> >> ELSE <<>>) \o AutoResets(i + 1)

\* the automatic reset of modules reporting a low capacitor voltage
MasterRecover ==
  /\ master_pc = "recover"
  /\ master_tx' = master_tx \o AutoResets(0)
  /\ mod_st' = [i \in DOMAIN mod_st |->
                  IF AutoReset(i)
                  THEN [mod_st[i] EXCEPT !.error = 0,
                                         !.last_reset = master_now]
                  ELSE mod_st[i]]
  /\ master_pc' = "serial"
  /\ UNCHANGED <<mod_display, line, last_request, master_timeout_temp,
                 hwc_temp, master_max_power, mains_pos, mains_neg, poll_id,
                 mode, master_now, master_rx, rf_tx>>

\* (pos == LINE_LENGTH - 1) || (c == '\n')
MasterLineEnds == pos = MASTER_LINE_LENGTH - 1 \/ Head(master_rx) = "\n"

\* a byte that does not complete a line
MasterByte ==
  /\ master_pc = "serial"
  /\ master_rx # <<>>
  /\ ~MasterLineEnds
  /\ line' = Append(line, Head(master_rx))
  /\ master_rx' = Tail(master_rx)
  /\ UNCHANGED <<mod_display, mod_st, last_request, master_timeout_temp,
                 hwc_temp, master_max_power, mains_pos, mains_neg, poll_id,
                 mode, master_now, master_pc, master_tx, rf_tx>>

\* a complete line: parse(), then the radio transmission of the power
MasterLine ==
  /\ master_pc = "serial"
  /\ master_rx # <<>>
  /\ MasterLineEnds
  /\ LET r == parse(line, mod_st)
         mod_rx == U16(r.ret)
         send == /\ mod_rx < MODULES
                 /\ After(Elapsed(master_now, r.st[mod_rx].last_tx), TX_INTERVAL)
     IN  /\ mod_st' = IF send
                      THEN [r.st EXCEPT ![mod_rx].last_tx = master_now]
                      ELSE r.st
         /\ rf_tx' = IF send
                     THEN Append(rf_tx, <<mod_rx, r.st[mod_rx].state,
                                          r.st[mod_rx].w>>)
                     ELSE rf_tx
  /\ line' = <<>>
  /\ master_rx' = Tail(master_rx)
  /\ UNCHANGED <<mod_display, last_request, master_timeout_temp, hwc_temp,
                 master_max_power, mains_pos, mains_neg, poll_id, mode,
                 master_now, master_pc, master_tx>>

\* loop() returns once the receive buffer is empty
MasterLoopEnd ==
  /\ master_pc = "serial"
  /\ master_rx = <<>>
  /\ master_pc' = "buttons"
  /\ master_tx' = <<>>
  /\ rf_tx' = <<>>
  /\ UNCHANGED <<mod_display, mod_st, line, last_request,
                 master_timeout_temp, hwc_temp, master_max_power, mains_pos,
                 mains_neg, poll_id, mode, master_now, master_rx>>

(***************************************************************************)
(* The environment of the master                                          *)
(***************************************************************************)
\* lines on the bus: a complete information line of module 1, tracking; module 1 reports the capacitor-voltage-low error;
\* an information line of module 1 cut short after the duty; a complete information line of module 2, halted
ResponseLines ==
  { <<"i", ";", "1", ";", "3", ";", "1", "0", "0", ";", "5", "5", ".", "0",
    "0", ";", "0", ".", "4", "0", ";", "2", "2", ".", "0", "0", ";", "3",
    "3", "0", ".", "0", "0", ";", "2", "5", ".", "0", "0", ";", "1", "5",
    "0", "0", "\r", "\n">>,
    <<"e", ";", "1", ";", "5", ";", "\r", "\n">>,
    <<"i", ";", "1", ";", "5", ";", "0", "\n">>,
    <<"i", ";", "2", ";", "5", ";", "0", ";", "0", ".", "0", "0", ";", "0",
    ".", "0", "0", ";", "0", ".", "0", "0", ";", "0", ".", "0", "0", ";",
    "2", "0", ".", "0", "0", ";", "0", "\r", "\n">> }

Buttons == {BUTTON_NONE, BUTTON_RIGHT, BUTTON_DOWN, BUTTON_SELECT}

\* five successive conversions of the cylinder sensor, in tenths of a
\* degree; -1270 is the reading of a failed conversion
HwcReadings ==
  { <<450, 450, 450, 450, 450>>, <<-1270, 450, 450, 450, 450>>,
    <<780, 780, 780, 780, 780>>, <<850, 850, 850, 850, 850>>,
    <<-1270, -1270, -1270, -1270, -1270>> }

MasterInit == MasterBoot(450)

(***************************************************************************)
(* The S3 duty step on its own                                            *)
(***************************************************************************)
VARIABLES
  step_pwm,        \* the duty before the step
  step_direction,  \* the direction decided for the step
  step_result,     \* the duty after the step
  step_done

stepvars == <<step_pwm, step_direction, step_result, step_done>>

\* the duties S3 can hold, 0..314, and the directions; the zero-duty floor
\* leaves only +1 at duty 0
StepInit ==
  /\ step_pwm \in 0..(TOP - 11)
  /\ step_direction \in {-1, 1}
  /\ step_pwm = 0 => step_direction = 1
  /\ step_result = 0
  /\ step_done = FALSE

StepIdle ==
  /\ step_pwm = 0
  /\ step_direction = 1
  /\ step_result = 0
  /\ step_done = FALSE

StepApply ==
  /\ ~step_done
  /\ step_result' = S3Apply(step_pwm, step_direction)
  /\ step_done' = TRUE
  /\ UNCHANGED <<step_pwm, step_direction>>

(***************************************************************************)
(* Specifications                                                         *)
(***************************************************************************)
vars == <<modvars, mastervars, stepvars, timervars, tearvars>>

\* the module before any iteration of loop(), for the master on its own
ModuleIdle == ModuleBoot(0, [a \in {0, 1} |-> 0])

\* the steps of a module leave the master alone, and the other way round
\* loop() of the master leaves the variables of its timer interrupt alone
ModuleOnly == UNCHANGED <<mastervars, stepvars, timervars, tearvars>>
MasterOnly == UNCHANGED <<modvars, stepvars, timervars, tearvars>>
StepOnly == UNCHANGED <<modvars, mastervars, timervars, tearvars>>
TimerOnly == UNCHANGED <<modvars, stepvars, tearvars>>
BoardOnly == UNCHANGED <<modvars, stepvars>>

\* a module with its master's lines on the bus
Init == ModuleInit /\ MasterInit /\ StepIdle

Next ==
  \/ LoopBegin(Readings, Temperatures, MasterLines(id) \cup OtherPoll(id))
       /\ ModuleOnly
  \/ SerialByte /\ ModuleOnly
  \/ LineDropped /\ ModuleOnly
  \/ CmdInfo /\ ModuleOnly
  \/ CmdHalt /\ ModuleOnly
  \/ CmdStart /\ ModuleOnly
  \/ CmdReset /\ ModuleOnly
  \/ CmdSetPower /\ ModuleOnly
  \/ FsmS0 /\ ModuleOnly
  \/ FsmS1 /\ ModuleOnly
  \/ FsmS2 /\ ModuleOnly
  \/ FsmS3 /\ ModuleOnly
  \/ FsmIdle /\ ModuleOnly
  \/ Interlocks /\ ModuleOnly
  \/ over_int /\ ModuleOnly

Spec == Init /\ [][Next]_vars

\* a module on a bus that also carries lines for others and broken lines
BusReadings == { <<248, 119, 200>>, <<248, 119, 325>> }

BusLines(d) == MasterLines(d) \cup OtherLines(d)

BusNext ==
  \/ LoopBegin(BusReadings, Temperatures, BusLines(id)) /\ ModuleOnly
  \/ SerialByte /\ ModuleOnly
  \/ LineDropped /\ ModuleOnly
  \/ CmdInfo /\ ModuleOnly
  \/ CmdHalt /\ ModuleOnly
  \/ CmdStart /\ ModuleOnly
  \/ CmdReset /\ ModuleOnly
  \/ CmdSetPower /\ ModuleOnly
  \/ FsmS0 /\ ModuleOnly
  \/ FsmS1 /\ ModuleOnly
  \/ FsmS2 /\ ModuleOnly
  \/ FsmS3 /\ ModuleOnly
  \/ FsmIdle /\ ModuleOnly
  \/ Interlocks /\ ModuleOnly
  \/ over_int /\ ModuleOnly

SpecBus == Init /\ [][BusNext]_vars

\* a module whose sensors give readings that trip the interlocks: capacitor
\* voltage 11 V and 380 V, panel current 60 = -0.48 A, temperatures 90.0
\* and -40.0
TripReadings ==
  { <<248, 119, 325>>, <<248, 119, 11>>, <<248, 119, 380>>,
    <<248, 60, 325>> }
TripTemperatures == {250, 900, -400}

TripNext ==
  \/ LoopBegin(TripReadings, TripTemperatures,
               MasterLines(id) \cup OtherPoll(id))
       /\ ModuleOnly
  \/ SerialByte /\ ModuleOnly
  \/ LineDropped /\ ModuleOnly
  \/ CmdInfo /\ ModuleOnly
  \/ CmdHalt /\ ModuleOnly
  \/ CmdStart /\ ModuleOnly
  \/ CmdReset /\ ModuleOnly
  \/ CmdSetPower /\ ModuleOnly
  \/ FsmS0 /\ ModuleOnly
  \/ FsmS1 /\ ModuleOnly
  \/ FsmS2 /\ ModuleOnly
  \/ FsmS3 /\ ModuleOnly
  \/ FsmIdle /\ ModuleOnly
  \/ Interlocks /\ ModuleOnly
  \/ over_int /\ ModuleOnly

SpecTrip == Init /\ [][TripNext]_vars

\* a module that receives its Halt command twice in a row: both lines are
\* in the receive buffer when the serial loop starts, so the second is
\* handled right after the first; its readings trip the interlocks on the
\* capacitor voltage (11 V, 380 V) and on a negative current (-0.48 A)
HaltLine(d) == <<"h">> \o Decimal(d) \o <<";">>
CmdLines(d) ==
  (MasterLines(d) \ {HaltLine(d)})
    \cup {HaltLine(d) \o HaltLine(d)} \cup OtherPoll(d)
CmdReadings ==
  { <<248, 119, 325>>, <<248, 119, 11>>, <<248, 119, 380>>,
    <<248, 60, 325>> }

CmdNext ==
  \/ LoopBegin(CmdReadings, Temperatures, CmdLines(id)) /\ ModuleOnly
  \/ SerialByte /\ ModuleOnly
  \/ LineDropped /\ ModuleOnly
  \/ CmdInfo /\ ModuleOnly
  \/ CmdHalt /\ ModuleOnly
  \/ CmdStart /\ ModuleOnly
  \/ CmdReset /\ ModuleOnly
  \/ CmdSetPower /\ ModuleOnly
  \/ FsmS0 /\ ModuleOnly
  \/ FsmS1 /\ ModuleOnly
  \/ FsmS2 /\ ModuleOnly
  \/ FsmS3 /\ ModuleOnly
  \/ FsmIdle /\ ModuleOnly
  \/ Interlocks /\ ModuleOnly
  \/ over_int /\ ModuleOnly

SpecCmd == Init /\ [][CmdNext]_vars

\* a module whose output is shorted or whose capacitor sense fails: panel
\* current 260 = 2.15 A, capacitor voltage 11 V, alone and together with
\* each other, with a low panel voltage, a negative current, a high
\* capacitor voltage and a temperature of 90.0
GuardReadings ==
  { <<248, 119, 325>>, <<248, 119, 200>>, <<248, 260, 200>>,
    <<248, 260, 11>>, <<248, 119, 11>>, <<130, 119, 11>>, <<248, 60, 11>>,
    <<248, 260, 380>> }
GuardTemperatures == {250, 900}

GuardNext ==
  \/ LoopBegin(GuardReadings, GuardTemperatures,
               MasterLines(id) \cup OtherPoll(id))
       /\ ModuleOnly
  \/ SerialByte /\ ModuleOnly
  \/ LineDropped /\ ModuleOnly
  \/ CmdInfo /\ ModuleOnly
  \/ CmdHalt /\ ModuleOnly
  \/ CmdStart /\ ModuleOnly
  \/ CmdReset /\ ModuleOnly
  \/ CmdSetPower /\ ModuleOnly
  \/ FsmS0 /\ ModuleOnly
  \/ FsmS1 /\ ModuleOnly
  \/ FsmS2 /\ ModuleOnly
  \/ FsmS3 /\ ModuleOnly
  \/ FsmIdle /\ ModuleOnly
  \/ Interlocks /\ ModuleOnly
  \/ over_int /\ ModuleOnly

SpecGuard == Init /\ [][GuardNext]_vars

\* A module that booted halted (latch set) and has been halted since, at
\* the top of loop() when the clock reads t: nothing but the clock, the
\* temperature poll and the fan have moved since boot.
ModuleHaltedSince(t) ==
  /\ id = 0
  /\ eeprom = [a \in {0, 1} |-> IF a = EEPROM_ADDRESS_MAX_POWER THEN 200
                                ELSE 1]
  /\ max_power = BootMaxPower(200)
  /\ state = S5
  /\ pwm = 0
  /\ OCR1B = 0
  /\ error_code = ERROR_NONE
  /\ SYS_ENABLE = 0
  /\ SYS_OUTPUT = 0
  /\ SYS_FAULT = 1
  /\ FAN_DRIVE = 0
  /\ flag_over = FALSE
  /\ timeout_pause = 0
  /\ timeout_temp = t
  /\ temperature = 250
  /\ direction = -1
  /\ last_power = 0
  /\ cli = [i \in 1..LINE_LENGTH |-> NUL]
  /\ cli_pos = 0
  /\ voltage = 0
  /\ current = 0
  /\ power = 0
  /\ cap_voltage = 0
  /\ now = t
  /\ pc = "begin"
  /\ rx = <<>>
  /\ tx = <<>>
  /\ handled = {}
  /\ fsm_in = S5
  /\ loop_in = S5

\* loop iterations shorter than the S0 dwell
DwellMs == 2000
DwellDurations == {DwellMs, LoopMs}
DwellReadings == { <<248, 119, 325>> }

\* from boot, and from two short iterations before millis() wraps
DwellInit ==
  /\ ModuleInit \/ ModuleHaltedSince(0 - 2 * DwellMs - 1)
  /\ MasterInit
  /\ StepIdle

DwellNext ==
  \/ (\E dt \in DwellDurations :
        LoopBeginAfter(dt, DwellReadings, Temperatures,
                       MasterLines(id) \cup OtherPoll(id))) /\ ModuleOnly
  \/ SerialByte /\ ModuleOnly
  \/ LineDropped /\ ModuleOnly
  \/ CmdInfo /\ ModuleOnly
  \/ CmdHalt /\ ModuleOnly
  \/ CmdStart /\ ModuleOnly
  \/ CmdReset /\ ModuleOnly
  \/ CmdSetPower /\ ModuleOnly
  \/ FsmS0 /\ ModuleOnly
  \/ FsmS1 /\ ModuleOnly
  \/ FsmS2 /\ ModuleOnly
  \/ FsmS3 /\ ModuleOnly
  \/ FsmIdle /\ ModuleOnly
  \/ Interlocks /\ ModuleOnly
  \/ over_int /\ ModuleOnly

SpecDwell == DwellInit /\ [][DwellNext]_vars

\* a module at each of the DIP switch settings 0, 9, 10 and 15 that receives
\* SetPower lines for itself: limits below, at and above the accepted range
\* 50..425, and the limit 400 that the configured EEPROM images hold
PowerIds == {0, 9, 10, 15}
PowerRequests == {49, 50, 100, 400, 425, 426}
PowerLines(d) ==
  { <<"p">> \o Decimal(d) \o <<":">> \o Decimal(w) \o <<";">> :
      w \in PowerRequests }
PowerReadings == { <<248, 119, 200>> }

PowerInit ==
  /\ \E d \in PowerIds, e \in EepromImages : ModuleBoot(d, e)
  /\ MasterInit
  /\ StepIdle

\* no other line is on the bus and the capacitor stays at 200 V, so the
\* other commands, a dropped line and S3 do not occur
PowerNext ==
  \/ LoopBegin(PowerReadings, Temperatures, PowerLines(id)) /\ ModuleOnly
  \/ SerialByte /\ ModuleOnly
  \/ CmdSetPower /\ ModuleOnly
  \/ FsmS0 /\ ModuleOnly
  \/ FsmS1 /\ ModuleOnly
  \/ FsmS2 /\ ModuleOnly
  \/ FsmIdle /\ ModuleOnly
  \/ Interlocks /\ ModuleOnly
  \/ over_int /\ ModuleOnly

SpecPower == PowerInit /\ [][PowerNext]_vars

\* A module that is sent power limits and is restarted at any moment, any
\* number of times: the limits at the ends of the accepted range, next to
\* them and inside it, odd and even.
RebootIds == {0, 9}
RebootRequests == {50, 51, 100, 424, 425}
RebootLines(d) ==
  { <<"p">> \o Decimal(d) \o <<":">> \o Decimal(w) \o <<";">> :
      w \in RebootRequests }

RebootInit ==
  /\ \E d \in RebootIds, e \in EepromImages : ModuleBoot(d, e)
  /\ MasterInit
  /\ StepIdle

\* no other line is on the bus and the capacitor stays at 200 V, so the
\* other commands, a dropped line and S3 do not occur
RebootNext ==
  \/ LoopBegin(PowerReadings, Temperatures, RebootLines(id)) /\ ModuleOnly
  \/ SerialByte /\ ModuleOnly
  \/ CmdSetPower /\ ModuleOnly
  \/ FsmS0 /\ ModuleOnly
  \/ FsmS1 /\ ModuleOnly
  \/ FsmS2 /\ ModuleOnly
  \/ FsmIdle /\ ModuleOnly
  \/ Interlocks /\ ModuleOnly
  \/ PowerCycle /\ ModuleOnly

SpecReboot == RebootInit /\ [][RebootNext]_vars

\* A module that has been boosting (S2) or tracking (S3) with duty p when
\* the clock reads t, at the top of loop(): started at boot and never
\* halted, the drive enabled, the relay on in S3, the duty register equal
\* to the duty, the capacitor flag consumed. d, lw: the direction and the
\* power of the latest S3 step.
ModuleRunningAt(s, p, d, lw, t) ==
  /\ id = 0
  /\ eeprom = [a \in {0, 1} |-> IF a = EEPROM_ADDRESS_MAX_POWER THEN 200
                                ELSE 0]
  /\ max_power = BootMaxPower(200)
  /\ state = s
  /\ pwm = p
  /\ OCR1B = p
  /\ error_code = ERROR_NONE
  /\ SYS_ENABLE = 1
  /\ SYS_OUTPUT = IF s = S3 THEN 1 ELSE 0
  /\ SYS_FAULT = 1
  /\ FAN_DRIVE = 0
  /\ flag_over = FALSE
  /\ timeout_pause = 0
  /\ timeout_temp = t
  /\ temperature = 250
  /\ direction = d
  /\ last_power = lw
  /\ cli = [i \in 1..LINE_LENGTH |-> NUL]
  /\ cli_pos = 0
  /\ voltage = 0
  /\ current = 0
  /\ power = 0
  /\ cap_voltage = 0
  /\ now = t
  /\ pc = "begin"
  /\ rx = <<>>
  /\ tx = <<>>
  /\ handled = {}
  /\ fsm_in = s
  /\ loop_in = s

\* the module has been up for 2^31 ms (24.9 days), far from the wrap of
\* millis(), and is followed for TrackIterations iterations
TrackStartMs == 0 - ClockMax - 1
TrackIterations == 3

\* the duties at the edges of the S2 ramp (0..275, back-off by 5) and of the
\* S3 step (floor at 0, lower bound 21, upper bound 314)
S2Duties == {0, 4, 5, 6, 274, 275}
S3Duties == {0, 1, 21, 22, 313, 314}

\* ADC samples: panel voltage 130 = 9.97 V, 230 = 17.64 V, 248 = 19.02 V,
\* 678 = 52.00 V, 700 = 53.68 V; panel current 119 = 0.30 A, 705 = 7.99 A
\* (429 W at 53.68 V, above the limits)
TrackReadings ==
  { <<248, 119, 200>>, <<248, 119, 325>>, <<230, 119, 200>>,
    <<130, 119, 200>>, <<678, 119, 325>>, <<700, 705, 325>> }
\* the power of the S3 step before: none, or 100 W
TrackLastPowers == {0, 100000}

TrackInit ==
  /\ \/ \E p \in S2Duties : ModuleRunningAt(S2, p, -1, 0, TrackStartMs)
     \/ \E p \in S3Duties, d \in {-1, 1}, lw \in TrackLastPowers :
          (p = 0 => d = 1) /\ ModuleRunningAt(S3, p, d, lw, TrackStartMs)
  /\ MasterInit
  /\ StepIdle

TrackNext ==
  \/ (/\ now + LoopMs <= TrackStartMs + TrackIterations * LoopMs
      /\ LoopBegin(TrackReadings, Temperatures, MasterLines(id)))
       /\ ModuleOnly
  \/ SerialByte /\ ModuleOnly
  \/ CmdInfo /\ ModuleOnly
  \/ CmdHalt /\ ModuleOnly
  \/ CmdStart /\ ModuleOnly
  \/ CmdReset /\ ModuleOnly
  \/ CmdSetPower /\ ModuleOnly
  \/ FsmS0 /\ ModuleOnly
  \/ FsmS1 /\ ModuleOnly
  \/ FsmS2 /\ ModuleOnly
  \/ FsmS3 /\ ModuleOnly
  \/ FsmIdle /\ ModuleOnly
  \/ Interlocks /\ ModuleOnly
  \/ over_int /\ ModuleOnly

SpecTrack == TrackInit /\ [][TrackNext]_vars

\* a module with several faults at once: capacitor voltage 11 V or 380 V
\* together with a panel current of -0.48 A (sample 60), a current of
\* 2.15 A (sample 260) in S2, and temperatures of 90.0 and -40.0
FaultReadings ==
  { <<248, 119, 325>>, <<248, 60, 11>>, <<248, 60, 380>>, <<248, 260, 200>>,
    <<248, 60, 200>> }
FaultTemperatures == {250, 900, -400}
\* the commands that change the state of the module
FaultLines(d) ==
  { <<c>> \o Decimal(d) \o <<";">> : c \in {"h", "s", "r"} }

\* every line on the bus is a Halt, Start or Reset of this module
FaultNext ==
  \/ LoopBegin(FaultReadings, FaultTemperatures, FaultLines(id))
       /\ ModuleOnly
  \/ SerialByte /\ ModuleOnly
  \/ CmdHalt /\ ModuleOnly
  \/ CmdStart /\ ModuleOnly
  \/ CmdReset /\ ModuleOnly
  \/ FsmS0 /\ ModuleOnly
  \/ FsmS1 /\ ModuleOnly
  \/ FsmS2 /\ ModuleOnly
  \/ FsmS3 /\ ModuleOnly
  \/ FsmIdle /\ ModuleOnly
  \/ Interlocks /\ ModuleOnly
  \/ over_int /\ ModuleOnly

SpecFault == Init /\ [][FaultNext]_vars

\* the master
MasterSpecInit == MasterInit /\ ModuleIdle /\ StepIdle

MasterSpecNext ==
  \/ MasterButtons(Buttons, ResponseLines) /\ MasterOnly
  \/ MasterPoll /\ MasterOnly
  \/ MasterThermal(HwcReadings) /\ MasterOnly
  \/ MasterRecover /\ MasterOnly
  \/ MasterByte /\ MasterOnly
  \/ MasterLine /\ MasterOnly
  \/ MasterLoopEnd /\ MasterOnly

SpecMaster == MasterSpecInit /\ [][MasterSpecNext]_vars

\* The master at the top of loop() when the clock reads t, no button
\* having been pressed and no byte received since boot: the boot resets are
\* long sent, module p was polled and the cylinder read in the iteration
\* before.
MasterRunning(t, p) ==
  /\ mod_display = 0
  /\ mod_st = [i \in 0..(MODULES - 1) |-> ModStZero]
  /\ line = <<>>
  /\ last_request = t
  /\ master_timeout_temp = t
  /\ hwc_temp = 450
  /\ master_max_power = 400
  /\ mains_pos = [i \in 0..(MAINS_SEQUENCE_LENGTH - 1) |->
                    IF i < 8 THEN 1 ELSE 0]
  /\ mains_neg = [i \in 0..(MAINS_SEQUENCE_LENGTH - 1) |->
                    IF i >= 15 /\ i < 23 THEN 1 ELSE 0]
  /\ poll_id = p
  /\ mode = MODE_DASH_MULT
  /\ master_now = t
  /\ master_pc = "buttons"
  /\ master_rx = <<>>
  /\ master_tx = <<>>
  /\ rf_tx = <<>>
  /\ TimerStarted

\* module 1 reports a low capacitor voltage
CapLowReport == <<"e", ";", "1", ";", "5", ";", "\r", "\n">>

\* the report, and the telemetry of module 1 with 55 V at the input
CapLowLines ==
  { CapLowReport,
    <<"i", ";", "1", ";", "4", ";", "0", ";", "5", "5", ".", "0", "0", ";",
    "0", ".", "0", "0", ";", "0", ".", "0", "0", ";", "1", "1", ".", "0",
    "0", ";", "2", "5", ".", "0", "0", ";", "0", "\r", "\n">> }

\* The master shortly before millis() wraps: the clock reads 0 between the
\* fifth and the sixth iteration.
MasterWrapInit ==
  MasterRunning(0 - 5 * MasterLoopMs - 1, 0) /\ ModuleIdle /\ StepIdle

MasterWrapNext ==
  \/ MasterButtons({BUTTON_NONE}, CapLowLines) /\ MasterOnly
  \/ MasterPoll /\ MasterOnly
  \/ MasterThermal({<<450, 450, 450, 450, 450>>}) /\ MasterOnly
  \/ MasterRecover /\ MasterOnly
  \/ MasterByte /\ MasterOnly
  \/ MasterLine /\ MasterOnly
  \/ MasterLoopEnd /\ MasterOnly

SpecMasterWrap == MasterWrapInit /\ [][MasterWrapNext]_vars

\* a master whose loop iterations can be shorter than the polling interval
ShortMs == 400
PollDurations == {ShortMs, MasterLoopMs}

PollNext ==
  \/ (\E dt \in PollDurations :
        MasterButtonsAfter(dt, {BUTTON_NONE}, {CapLowReport})) /\ MasterOnly
  \/ MasterPoll /\ MasterOnly
  \/ MasterThermal({<<450, 450, 450, 450, 450>>}) /\ MasterOnly
  \/ MasterRecover /\ MasterOnly
  \/ MasterByte /\ MasterOnly
  \/ MasterLine /\ MasterOnly
  \/ MasterLoopEnd /\ MasterOnly

\* from boot, and from shortly before millis() wraps, module 3 polled last
PollInit ==
  /\ MasterInit \/ MasterRunning(0 - 2 * ShortMs - 1, MODULES - 1)
  /\ ModuleIdle
  /\ StepIdle

SpecPoll == PollInit /\ [][PollNext]_vars

\* The master with its timer interrupt, from 10 s before millis() wraps:
\* two thermal checks fall within the horizon, and the cylinder may read
\* 45.0, 78.0 or 85.0 at each.
TimerReadings ==
  { <<450, 450, 450, 450, 450>>, <<780, 780, 780, 780, 780>>,
    <<850, 850, 850, 850, 850>> }

TimerInit ==
  MasterRunning(0 - 4 * MasterLoopMs - 1, 0) /\ ModuleIdle /\ StepIdle

TimerNext ==
  \/ MasterButtons({BUTTON_NONE}, {CapLowReport}) /\ MasterOnly
  \/ MasterPoll /\ MasterOnly
  \/ MasterThermal(TimerReadings) /\ MasterOnly
  \/ MasterRecover /\ MasterOnly
  \/ MasterByte /\ MasterOnly
  \/ MasterLine /\ MasterOnly
  \/ MasterLoopEnd /\ MasterOnly
  \/ TIMER2_OVF /\ TimerOnly

SpecTimer == TimerInit /\ [][TimerNext]_vars

\* The master with the interrupt in its two writes and the fail-safe loop
\* in its single stores, from the same state as SpecTimer: the interrupt
\* may expire between any two statements of loop(), any number of times.
TearNext ==
  \/ MainRuns /\ MasterButtons({BUTTON_NONE}, {CapLowReport}) /\ MasterOnly
  \/ MainRuns /\ MasterPoll /\ MasterOnly
  \/ MainRuns /\ MasterThermalBegin(TimerReadings) /\ BoardOnly
  \/ MainRuns /\ ZeroStore /\ BoardOnly
  \/ MainRuns /\ ZeroEnd /\ BoardOnly
  \/ MainRuns /\ MasterRecover /\ MasterOnly
  \/ MainRuns /\ MasterByte /\ MasterOnly
  \/ MainRuns /\ MasterLine /\ MasterOnly
  \/ MainRuns /\ MasterLoopEnd /\ MasterOnly
  \/ IsrWriteA /\ BoardOnly
  \/ IsrWriteB /\ BoardOnly

SpecTear == TimerInit /\ [][TearNext]_vars

\* the S3 duty step
StepSpecInit == StepInit /\ MasterInit /\ ModuleIdle

StepSpecNext == StepApply /\ StepOnly

SpecStep == StepSpecInit /\ [][StepSpecNext]_vars

(***************************************************************************)
(* Properties                                                             *)
(***************************************************************************)
\* the last step of an iteration of the module's loop()
IterationEnds == pc = "interlock" /\ pc' = "begin"

\* the FSM step of an iteration of the module's loop()
FsmSteps == pc = "serial" /\ pc' = "interlock"

\* one of the interlock conditions that apply outside S2 holds
InterlockCondition ==
  \/ cap_voltage < 12
  \/ cap_voltage > 370
  \/ current < -100
  \/ temperature > MAX_TEMPERATURE
  \/ temperature < MIN_TEMPERATURE

\* the number of times the command c occurs in the output t
RECURSIVE Occurrences(_, _)
Occurrences(t, c) ==
  IF t = <<>> THEN 0
  ELSE (IF Head(t) = c THEN 1 ELSE 0) + Occurrences(Tail(t), c)

\* what a step of the master adds to its serial output
Written == SubSeq(master_tx', Len(master_tx) + 1, Len(master_tx'))

\* C1: whenever a thermal check finds the cylinder temperature below -10.0
\* or above 75.0, the master emits exactly one h<i>; for each module i in
\* 0..MODULES-1 whose cached state is not 5, and no other Halt command.
C1_ThermalHaltsEachModule ==
  [][(/\ master_pc = "thermal"
      /\ master_now > master_timeout_temp + 10000
      /\ (hwc_temp' < MIN_HWC_TEMP \/ hwc_temp' > MAX_HWC_TEMP))
     => /\ \A i \in 0..(MODULES - 1) :
             Occurrences(Written, <<"h", i>>)
               = (IF mod_st[i].state # 5 THEN 1 ELSE 0)
        /\ \A k \in 1..Len(Written) :
             Written[k][1] = "h" => Written[k][2] \in 0..(MODULES - 1)]_vars

\* the number of ';' in a line
RECURSIVE SemiCount(_)
SemiCount(l) ==
  IF l = <<>> THEN 0
  ELSE (IF Head(l) = ";" THEN 1 ELSE 0) + SemiCount(Tail(l))

\* an 'i' line has ten fields, an 'e' line three
MissingField(l) ==
  /\ Len(l) >= 3
  /\ \/ l[1] = "i" /\ SemiCount(l) < 9
     \/ l[1] = "e" /\ SemiCount(l) < 2

\* the fields of a telemetry record that a response line carries
Telemetry(r) ==
  <<r.state, r.pwm, r.v, r.a, r.w, r.c, r.temp, r.fan, r.error>>

\* C2: when the master completes an 'i' or 'e' line for module m that is
\* missing a field, parse() returns -1 and every telemetry field of m keeps
\* the value it had before the line.
C2_ParseAllOrNothing ==
  [][(/\ master_pc = "serial"
      /\ master_rx # <<>>
      /\ MasterLineEnds
      /\ MissingField(line)
      /\ Atoi(line, 2) \in 0..(MODULES - 1))
     => /\ parse(line, mod_st).ret = -1
        /\ Telemetry(mod_st'[Atoi(line, 2)])
             = Telemetry(mod_st[Atoi(line, 2)])]_vars

\* C3: in every state from the end of boot onward the power limit is within
\* MIN_MAX_POWER (50) .. MAX_POWER (425).
C3_MaxPowerInRange == MIN_MAX_POWER <= max_power /\ max_power <= MAX_POWER

\* C4 as stated: an iteration that begins in S5 and handles no Start or
\* Reset command ends in S5, whatever the readings.
C4_HaltStaysHalt ==
  [][(IterationEnds /\ loop_in = S5 /\ handled \cap {"s", "r"} = {})
     => state' = S5]_vars

\* C4: an iteration that begins in S5 and handles no Start or Reset command
\* ends in S5 if no interlock condition (capacitor voltage < 12 or > 370,
\* current < -0.1, temperature > 85 or < -30) holds in it, and in S4 if one
\* holds.
C4_HaltStaysHaltOrFaults ==
  [][(IterationEnds /\ loop_in = S5 /\ handled \cap {"s", "r"} = {})
     => state' = (IF InterlockCondition THEN S4 ELSE S5)]_vars

\* a halted module (latch set) that an interlock moved to S4
C4_HaltedModuleFaulted ==
  /\ pc = "begin"
  /\ now > 0
  /\ state = S4
  /\ eeprom[EEPROM_ADDRESS_HALTED] # 0

\* C5 as stated: an iteration that begins in S4 ends in another state only
\* if it handled a Start or Reset command.
C5_FaultLeftByStartReset ==
  [][(IterationEnds /\ loop_in = S4 /\ state' # S4)
     => handled \cap {"s", "r"} # {}]_vars

\* C5: an iteration that begins in S4 ends in another state only if it
\* handled a Start, Reset or Halt command addressed to the module.
C5_FaultLeftByCommand ==
  [][(IterationEnds /\ loop_in = S4 /\ state' # S4)
     => handled \cap {"s", "r", "h"} # {}]_vars

\* a faulted module that was halted: S5 with the error code still recorded
C5_FaultedModuleHalted ==
  /\ pc = "begin"
  /\ state = S5
  /\ error_code # ERROR_NONE

\* C6: an FSM step that starts in S2 with input voltage < 15.0 disables the
\* drive, sets duty 0 and moves to S0; it does not take the S2->S3
\* transition (relay enabled, flag cleared).
C6_S2LowInputExits ==
  [][(FsmSteps /\ state = S2 /\ voltage < 15000)
     => /\ state' = S0
        /\ pwm' = 0
        /\ SYS_ENABLE' = 0
        /\ SYS_OUTPUT' = SYS_OUTPUT
        /\ flag_over' = flag_over]_vars

\* C7: an iteration whose FSM step starts in S3 with input voltage < 15.0
\* and in which no interlock trips ends in S0 with the drive and the relay
\* disabled, duty 0 and 0 in the hardware duty register.
C7_S3LowInputExits ==
  [][(IterationEnds /\ fsm_in = S3 /\ voltage < 15000 /\ state' # S4)
     => /\ state' = S0
        /\ SYS_ENABLE' = 0
        /\ SYS_OUTPUT' = 0
        /\ pwm' = 0
        /\ OCR1B' = 0]_vars

LineText == SubSeq(cli, 1, cli_pos)

\* a ';' completes a line that starts with a command code
CommandLineEnds ==
  /\ pc = "serial"
  /\ rx # <<>>
  /\ NextByte = ";"
  /\ cli_pos >= 1
  /\ cli[1] \in {"i", "h", "s", "r", "p"}

\* the position after the run of digits that starts at position i
RECURSIVE DigitRun(_, _)
DigitRun(l, i) ==
  IF i <= Len(l) /\ l[i] \in Digits THEN DigitRun(l, i + 1) ELSE i

\* the number that the digits l[i..j-1] denote
RECURSIVE Denoted(_, _, _)
Denoted(l, i, j) ==
  IF j <= i THEN 0 ELSE Denoted(l, i, j - 1) * 10 + DigitVal(l[j - 1])

\* the id field: the characters after the command code, up to the ':' of a
\* SetPower line or the end of the line
IdFieldEnd(l) ==
  IF l[1] = "p" /\ \E k \in 2..Len(l) : l[k] = ":"
  THEN CHOOSE k \in 2..Len(l) : l[k] = ":" /\ \A j \in 2..(k - 1) : l[j] # ":"
  ELSE Len(l) + 1

MissingId(l) == IdFieldEnd(l) = 2
NumericId(l) == ~MissingId(l) /\ DigitRun(l, 2) = IdFieldEnd(l)
IdField(l) == Denoted(l, 2, IdFieldEnd(l))

\* a SetPower line with a numeric value outside 50..425
PowerOutOfRange(l) ==
  /\ l[1] = "p"
  /\ NumericId(l)
  /\ IdFieldEnd(l) < Len(l)
  /\ DigitRun(l, IdFieldEnd(l) + 1) = Len(l) + 1
  /\ Denoted(l, IdFieldEnd(l) + 1, Len(l) + 1) \notin MIN_MAX_POWER..MAX_POWER

\* the step changes nothing of the module that a command could change and
\* writes no response
LineIgnored ==
  /\ state' = state
  /\ pwm' = pwm
  /\ OCR1B' = OCR1B
  /\ error_code' = error_code
  /\ eeprom' = eeprom
  /\ max_power' = max_power
  /\ SYS_ENABLE' = SYS_ENABLE
  /\ SYS_OUTPUT' = SYS_OUTPUT
  /\ SYS_FAULT' = SYS_FAULT
  /\ tx' = tx

\* C9: a complete command line whose numeric id field differs from the
\* module's id changes neither state, duty, error_code, halted latch, power
\* limit nor output lines, and no response is written.
C9_WrongIdIgnored ==
  [][(CommandLineEnds /\ NumericId(LineText) /\ IdField(LineText) # id)
     => LineIgnored]_vars

\* C10: a line with a missing id field, a non-numeric id field or a
\* SetPower value outside 50..425 changes neither state, duty, error_code,
\* halted latch nor power limit of the module, and no response is written.
C10_MalformedIgnored ==
  [][(/\ CommandLineEnds
      /\ \/ MissingId(LineText)
         \/ ~NumericId(LineText)
         \/ PowerOutOfRange(LineText))
     => LineIgnored]_vars

\* the master's recovery step writes an automatic reset of module i
AutoResetSent(i) ==
  master_pc = "recover" /\ Occurrences(Written, <<"r", i>>) > 0

\* C11: any two automatic resets r<i>; of one module are more than 10000 ms
\* apart, also when the module reports the low capacitor voltage again in
\* between (last_reset is 0 until the first automatic reset of the module,
\* and the time of the latest one afterwards).
C11_AutoResetsApart ==
  [][\A i \in 0..(MODULES - 1) :
       (AutoResetSent(i) /\ mod_st[i].last_reset # 0)
       => After(Elapsed(master_now, mod_st[i].last_reset), 10000)]_vars

\* C12: the recovery step writes r<i>; only for a module i whose cached
\* error is 5 and whose cached input voltage is above 50.0 V; with the
\* reset it sets the cached error of i to 0 and last_reset of i to the
\* current time, and it changes no other field of any telemetry record.
C12_AutoResetTrigger ==
  [][master_pc = "recover"
     => \A i \in 0..(MODULES - 1) :
          /\ Occurrences(Written, <<"r", i>>) <= 1
          /\ AutoResetSent(i)
             => /\ mod_st[i].error = 5
                /\ mod_st[i].v > 50000
                /\ mod_st'[i] = [mod_st[i] EXCEPT !.error = 0,
                                                  !.last_reset = master_now]
          /\ ~AutoResetSent(i) => mod_st'[i] = mod_st[i]]_vars

\* module 1 has just been reset automatically
C12_ModuleAutoReset ==
  /\ master_pc = "serial"
  /\ Occurrences(master_tx, <<"r", 1>>) = 1
  /\ mod_st[1].error = 0
  /\ mod_st[1].v > 50000
  /\ mod_st[1].last_reset = master_now

\* the state of the module's program apart from the serial line buffer
ModuleState ==
  <<state, pwm, OCR1B, error_code, max_power, eeprom, SYS_ENABLE,
    SYS_OUTPUT, SYS_FAULT, FAN_DRIVE, flag_over, timeout_pause,
    timeout_temp, temperature, direction, last_power>>

\* the state a Halt command leaves: S5, duty 0, drive and relay disabled,
\* latch set
Halted ==
  /\ state = S5
  /\ pwm = 0
  /\ OCR1B = 0
  /\ SYS_ENABLE = 0
  /\ SYS_OUTPUT = 0
  /\ eeprom[EEPROM_ADDRESS_HALTED] # 0

\* the step of the serial loop that handles a line with command code c
\* addressed to this module
Handles(c) == Dispatch(c) /\ rx' = Tail(rx)

\* C13: from any state, handling h<id>; leaves the module in S5 with duty
\* 0, drive and relay disabled and the halt latch set; handling h<id>; in
\* the state a Halt left (a second Halt right after the first) changes
\* nothing of the module's state and writes nothing to the EEPROM.
C13_HaltIdempotent ==
  [][Handles("h") => /\ Halted'
                     /\ Halted => ModuleState' = ModuleState]_vars

\* a running module (S3) has handled two Halt commands in a row
C13_HaltedTwice ==
  /\ pc = "serial"
  /\ rx = <<>>
  /\ "h" \in handled
  /\ loop_in = S3
  /\ Halted

\* C14: after handling r<id>; the state is S5 if the halt latch is set and
\* S0 if it is clear, the latch is what it was, the duty is 0, the error
\* code is None, the S0 dwell timer is restarted and drive and relay are
\* disabled.
C14_ResetFollowsLatch ==
  [][Handles("r")
     => /\ state' = IF eeprom[EEPROM_ADDRESS_HALTED] # 0 THEN S5 ELSE S0
        /\ eeprom' = eeprom
        /\ pwm' = 0
        /\ OCR1B' = 0
        /\ error_code' = ERROR_NONE
        /\ timeout_pause' = now
        /\ SYS_ENABLE' = 0
        /\ SYS_OUTPUT' = 0]_vars

\* a faulted module with the latch set has been reset, and is halted
C14_FaultedModuleReset ==
  /\ pc = "serial"
  /\ rx = <<>>
  /\ handled = {"r"}
  /\ loop_in = S4
  /\ state = S5
  /\ eeprom[EEPROM_ADDRESS_HALTED] # 0
  /\ error_code = ERROR_NONE

\* C15: the error code changes from a value other than None to None only
\* in the step that handles a Start or a Reset addressed to the module;
\* Info, Halt, SetPower and iterations without a command never clear it.
C15_ErrorClearedByStartReset ==
  [][(error_code # ERROR_NONE /\ error_code' = ERROR_NONE)
     => (Handles("s") \/ Handles("r"))]_vars

\* a faulted module has handled a Start, which cleared its error code
C15_ErrorCleared ==
  /\ pc = "serial"
  /\ rx = <<>>
  /\ handled = {"s"}
  /\ loop_in = S4
  /\ state = S0
  /\ error_code = ERROR_NONE

\* C16: an iteration whose FSM step starts in S3 with a capacitor voltage
\* below 12 V ends in S4 with the error CapLow, duty 0 and drive and relay
\* disabled, whatever the other readings are.
C16_CapLowDominates ==
  [][(IterationEnds /\ fsm_in = S3 /\ cap_voltage < 12)
     => /\ state' = S4
        /\ error_code' = ERROR_CAP_VOLTAGE_LOW
        /\ pwm' = 0
        /\ OCR1B' = 0
        /\ SYS_ENABLE' = 0
        /\ SYS_OUTPUT' = 0]_vars

\* the FSM step started in S3 and left it for S0 on a low panel voltage,
\* the capacitor reads 11 V and the interlocks are about to run
C16_S3CapLow ==
  /\ pc = "interlock"
  /\ fsm_in = S3
  /\ state = S0
  /\ cap_voltage < 12
  /\ voltage < 15000

\* C17: if after the FSM step the module is in S2 with a duty above 1 and
\* below 5, a current above 2.0 A and a capacitor voltage within 12..370 V,
\* the iteration ends in S4 with the error OverCurrent, duty 0 and drive and
\* relay disabled; and OverCurrent is recorded from no other state and at
\* no other duty.
C17_OverCurrentWindow ==
  [][/\ (/\ IterationEnds
         /\ state = S2 /\ pwm > 1 /\ pwm < 5
         /\ current > 2000
         /\ cap_voltage >= 12 /\ cap_voltage <= 370)
        => /\ state' = S4
           /\ error_code' = ERROR_OVER_CURRENT
           /\ pwm' = 0
           /\ OCR1B' = 0
           /\ SYS_ENABLE' = 0
           /\ SYS_OUTPUT' = 0
     /\ (error_code # ERROR_OVER_CURRENT /\ error_code' = ERROR_OVER_CURRENT)
        => /\ IterationEnds
           /\ state = S2 /\ pwm > 1 /\ pwm < 5]_vars

\* an iteration has ended in S4 on the over-current interlock
C17_OverCurrentTripped ==
  /\ pc = "begin"
  /\ state = S4
  /\ error_code = ERROR_OVER_CURRENT
  /\ pwm = 0
  /\ SYS_ENABLE = 0

\* the id the next information request addresses
NextPollId == IF poll_id + 1 >= MODULES THEN 0 ELSE poll_id + 1

\* the information requests a step of the master writes
RequestsWritten == SelectSeq(Written, LAMBDA c : c[1] = "i")

\* C18: the information requests address the ids 0, 1, ..., MODULES-1, 0,
\* ... in turn and successive requests are more than 500 ms apart (poll_id
\* and last_request are the id and the time of the latest request);
\* neither depends on a response: only the polling step changes poll_id
\* and last_request, and it writes the request whenever more than 500 ms
\* have passed.
C18_RoundRobin ==
  [][/\ RequestsWritten # <<>>
        => /\ master_pc = "poll"
           /\ RequestsWritten = << <<"i", NextPollId>> >>
           /\ After(Elapsed(master_now, last_request), 500)
           /\ poll_id' = NextPollId
           /\ last_request' = master_now
     /\ RequestsWritten = <<>>
        => /\ poll_id' = poll_id
           /\ last_request' = last_request
           /\ master_pc = "poll"
              => ~After(Elapsed(master_now, last_request), 500)]_vars

\* module 0 is polled again after module 3, a module having responded: the
\* request has just been written, later than the first iteration after
\* boot or in the running master
C18_SecondRound ==
  /\ master_pc = "thermal"
  /\ poll_id = 0
  /\ last_request = master_now
  /\ Occurrences(master_tx, <<"i", 0>>) = 1
  /\ After(master_now, Later(MasterBootMs, MasterLoopMs))
  /\ mod_st[1].error = 5

\* every entry of both waveform tables is 0
TablesCleared ==
  /\ \A i \in DOMAIN mains_pos : mains_pos[i] = 0
  /\ \A i \in DOMAIN mains_neg : mains_neg[i] = 0

\* the step is a thermal check
ThermalCheck ==
  /\ master_pc = "thermal"
  /\ After(master_now, Later(master_timeout_temp, 10000))
  /\ master_pc' = "recover"

\* the step is an expiry of the timer
TimerExpires == mains_counter' # mains_counter

\* C19: a thermal check that reads the cylinder above 80.0 C leaves every
\* entry of both waveform tables 0; cleared tables are never restored; and
\* every expiry of the timer with the tables cleared drives both auxiliary
\* lines low.
C19_ExtremeFailSafe ==
  [][/\ (ThermalCheck /\ hwc_temp' > EXTREME_HWC_TEMP) => TablesCleared'
     /\ TablesCleared => TablesCleared'
     /\ (TimerExpires /\ TablesCleared)
        => (SYS_VIA' = 0 /\ SYS_VIB' = 0)]_vars

\* after a reading above 80.0 C a later check has read 45.0 C; the tables
\* are still cleared and the timer has just put out entry 15, which was 1
\* in mains_neg
C19_StillCleared ==
  /\ TablesCleared
  /\ hwc_temp = 450
  /\ mains_counter = 16
  /\ SYS_VIA = 0
  /\ SYS_VIB = 0

\* C20: the module boots into S0 if the halt latch is clear and into S5 if
\* it is set; S1 is entered only from S0 and not before 3000 ms have passed
\* since the S0 dwell timer was last restarted; S2 is entered only from S1
\* in an iteration with a panel voltage above 18.0 V, with the drive enabled
\* and duty 0; S3 is entered only from S2, with the relay enabled.
C20_StartUpOrdering ==
  /\ state = IF eeprom[EEPROM_ADDRESS_HALTED] # 0 THEN S5 ELSE S0
  /\ [][/\ (state # S1 /\ state' = S1)
           => /\ FsmSteps
              /\ state = S0
              /\ ~After(3000, Elapsed(now, timeout_pause))
        /\ (state # S2 /\ state' = S2)
           => /\ FsmSteps
              /\ state = S1
              /\ voltage > 18000
              /\ SYS_ENABLE' = 1
              /\ pwm' = 0
        /\ (state # S3 /\ state' = S3)
           => /\ FsmSteps
              /\ state = S2
              /\ SYS_OUTPUT' = 1]_vars

\* the limit field of a SetPower line: the characters after the ':'
NumericWatts(l) ==
  /\ IdFieldEnd(l) < Len(l)
  /\ DigitRun(l, IdFieldEnd(l) + 1) = Len(l) + 1
WattsField(l) == Denoted(l, IdFieldEnd(l) + 1, Len(l) + 1)

\* a ';' completes the line p<id>:<watts>; that carries the module's own id
SetPowerLineEnds ==
  /\ CommandLineEnds
  /\ LineText[1] = "p"
  /\ NumericId(LineText)
  /\ IdField(LineText) = id
  /\ NumericWatts(LineText)

\* C21: for every module id 0..15 and every watts value, handling
\* p<id>:<watts>; addressed to the module sets max_power to watts if
\* 50 <= watts <= 425 and leaves max_power and the persisted byte unchanged
\* otherwise; the persisted byte changes only when the accepted value differs
\* from the current max_power.
C21_SetPower ==
  [][(SetPowerLineEnds /\ rx' = Tail(rx))
     => IF PowerAccepted(WattsField(LineText))
        THEN /\ max_power' = WattsField(LineText)
             /\ eeprom' # eeprom => WattsField(LineText) # max_power
        ELSE /\ max_power' = max_power
             /\ eeprom' = eeprom]_vars

\* C22: in every reachable module state, after any sequence of loop
\* iterations, sensor readings and commands, 0 <= duty <= 325 (TOP); the
\* unsigned 16-bit duty does not wrap below 0 in the S2 back-off (-5) or in
\* the S3 decrease (-1), which would leave it above 65530.
C22_DutyInRange == 0 <= pwm /\ pwm <= TOP

\* the S2 back-off was due at a duty below 5 and was not applied
C22_BackOffWithheld ==
  /\ pc = "interlock"
  /\ fsm_in = S2
  /\ state = S2
  /\ voltage < 18000
  /\ pwm = 4

\* the power exceeds the user limit or the 425 W hard limit
OverLimit == power > max_power * 1000 \/ power > MAX_POWER * 1000

\* the direction that the three rules give in their order, each overriding
\* the ones before it: plateau override or wrong-direction flip, power
\* clamp, zero-duty floor
RuledDirection ==
  LET first == IF voltage > 50000 /\ current < 500 THEN 1
               ELSE IF power < last_power THEN 0 - direction ELSE direction
      second == IF OverLimit THEN -1 ELSE first
  IN  IF pwm = 0 THEN 1 ELSE second

\* C25: in each S3 iteration the direction applied is decided in the order
\* plateau override / wrong-direction flip, then power clamp, then zero-duty
\* floor, later rules overriding earlier ones (for an iteration that stays in
\* S3); when the power exceeds the user limit or the hard limit and the duty
\* is above 0 the duty does not increase in that iteration; at duty 0 the
\* direction is +1 whatever the power; and with the readings 52.00 V and
\* 0.30 A the direction is +1 whatever the prior direction and last_power.
C25_DirectionPriority ==
  [][(FsmSteps /\ state = S3)
     => /\ voltage >= 15000 => direction' = RuledDirection
        /\ (OverLimit /\ pwm > 0) => pwm' <= pwm
        /\ pwm = 0 => direction' = 1
        /\ (Print2(voltage) = 5200 /\ Print2(current) = 30)
             => direction' = 1]_vars

\* an S3 step with the power above the limits took the duty from 313 to 312
C25_Clamped ==
  /\ pc = "interlock"
  /\ fsm_in = S3
  /\ OverLimit
  /\ direction = -1
  /\ pwm = 312

\* the hardware duty register at the moment a step drives the enable line
\* low: case 'h' and case 'r' write 0 to the register first; the FSM and the
\* interlocks do not write it, the register follows the duty only in the
\* last statement of loop()
DutyAtDisable == IF Handles("h") \/ Handles("r") THEN 0 ELSE OCR1B

\* C23: wherever the module drives the drive-enable line from on to off
\* (Halt, Reset, S2->S0, S3->S0 and each of the six interlocks), the
\* hardware duty register has been set to 0 before the line is driven low.
C23_DutyZeroBeforeDisable ==
  [][(SYS_ENABLE = 1 /\ SYS_ENABLE' = 0) => DutyAtDisable = 0]_vars

\* the over-current condition, on the state and the duty the FSM step left
OverCurrentCondition ==
  state = S2 /\ pwm > 1 /\ pwm < 5 /\ current > 2000

\* the code of the first interlock condition that holds, in the order
\* CapLow, CapHigh, OverCurrent, UnderCurrent, OverTemp, UnderTemp
FirstFault ==
  IF cap_voltage < 12 THEN ERROR_CAP_VOLTAGE_LOW
  ELSE IF cap_voltage > 370 THEN ERROR_CAP_VOLTAGE_HIGH
  ELSE IF OverCurrentCondition THEN ERROR_OVER_CURRENT
  ELSE IF current < -100 THEN ERROR_UNDER_CURRENT
  ELSE IF temperature > MAX_TEMPERATURE THEN ERROR_OVER_TEMP
  ELSE ERROR_UNDER_TEMP

\* C24: when the interlocks are evaluated outside S4 and one or several of
\* their conditions hold, error_code is set to the first one that holds in
\* the order CapLow, CapHigh, OverCurrent, UnderCurrent, OverTemp, UnderTemp
\* and is not overwritten by a later check; in an iteration that starts in
\* S4 and handles no command all checks are skipped: the module stays in S4
\* and error_code keeps its value.
C24_OneFaultPerTrip ==
  [][IterationEnds
     => /\ (state # S4 /\ (InterlockCondition \/ OverCurrentCondition))
             => /\ state' = S4
                /\ error_code' = FirstFault
        /\ (loop_in = S4 /\ handled = {})
             => /\ state' = S4
                /\ error_code' = error_code]_vars

\* the interlocks are about to run with a capacitor voltage of 11 V, a
\* negative current and a temperature of 90.0 at once
C24_ThreeFaults ==
  /\ pc = "interlock"
  /\ state # S4
  /\ cap_voltage < 12
  /\ current < -100
  /\ temperature > MAX_TEMPERATURE

\* C30: at the end of every loop iteration, state S4 implies that error_code
\* is not None, and an error_code other than None implies that the state is
\* S4 or S5: a module in S0, S1, S2 or S3 reports error None.
C30_StateAndErrorAgree ==
  [][IterationEnds
     => /\ state' = S4 => error_code' # ERROR_NONE
        /\ error_code' # ERROR_NONE => state' \in {S4, S5}]_vars

\* a module that tripped on over-current, at the top of loop()
C30_OverCurrentRecorded ==
  /\ pc = "begin"
  /\ state = S4
  /\ error_code = ERROR_OVER_CURRENT

\* a step of the capacitor-threshold interrupt: the main loop stays where
\* it is
InterruptStep == pc' = pc /\ rx' = rx /\ state' = state

\* C26: under every interleaving of the capacitor-threshold interrupt with
\* the main loop, the flag is set only by the interrupt and cleared only by
\* the main loop's S2->S3 step; the S2->S3 transition (relay switched on)
\* occurs only in an FSM step in which the flag was set and the measured
\* capacitor voltage was > 320 V, never with the flag clear.
C26_FlagDiscipline ==
  [][/\ (~flag_over /\ flag_over') => InterruptStep
     /\ (flag_over /\ ~flag_over')
          => FsmSteps /\ state = S2 /\ state' = S3 /\ SYS_OUTPUT' = 1
     /\ (state = S2 /\ state' = S3)
          => FsmSteps /\ flag_over /\ cap_voltage > 320 /\ ~flag_over'
     /\ (SYS_OUTPUT = 0 /\ SYS_OUTPUT' = 1)
          => FsmSteps /\ state = S2 /\ state' = S3]_vars

\* the interrupt fired again while the module is tracking in S3, after the
\* S2->S3 step consumed the flag
C26_FlagSetAgain ==
  /\ state = S3
  /\ SYS_OUTPUT = 1
  /\ flag_over

\* C27: at the end of every loop iteration, after any sequence of commands
\* and sensor readings, the output relay is on only if the state is S3 and
\* the drive-enable line is on only if the state is S2 or S3.
C27_OutputsMatchState ==
  [][IterationEnds
     => /\ SYS_OUTPUT' = 1 => state' = S3
        /\ SYS_ENABLE' = 1 => state' \in {S2, S3}]_vars

\* C28: at the end of every loop iteration in which the state is S4 or S5
\* the drive-enable line and the output relay are off, the duty is 0 and the
\* hardware duty register is 0; and the fault indicator is asserted (low)
\* exactly when the state is S4.
C28_FaultAndHaltDeEnergised ==
  [][IterationEnds
     => /\ state' \in {S4, S5}
             => /\ SYS_ENABLE' = 0
                /\ SYS_OUTPUT' = 0
                /\ pwm' = 0
                /\ OCR1B' = 0
        /\ SYS_FAULT' = 0 <=> state' = S4]_vars

\* a module that tripped while tracking in S3 (an S3 step recorded its
\* power), at the top of loop() with the fault indicator asserted
C28_TrippedInS3 ==
  /\ pc = "begin"
  /\ state = S4
  /\ SYS_FAULT = 0
  /\ last_power > 0

\* the persisted halted latch is set
LatchSet == eeprom[EEPROM_ADDRESS_HALTED] # 0

\* the latch and the state agree
LatchAgrees ==
  /\ LatchSet => state \in {S4, S5}
  /\ state = S5 => LatchSet

\* C29: at the end of boot and of every loop iteration, if the persisted
\* halted latch is set the state is S5 or S4, and S5 implies that the latch
\* is set; the drive is never enabled while the latch is set; only a Start
\* command clears the latch.
C29_LatchKeepsModuleOff ==
  /\ LatchAgrees
  /\ [][/\ IterationEnds => LatchAgrees'
        /\ LatchSet' => SYS_ENABLE' = 0
        /\ (LatchSet /\ ~LatchSet') => Handles("s")]_vars

\* a module that booted with an erased EEPROM (halted), was started and
\* then halted by command: the latch holds the 1 that Halt writes
C29_HaltedByCommand ==
  /\ pc = "begin"
  /\ state = S5
  /\ eeprom[EEPROM_ADDRESS_HALTED] = 1
  /\ eeprom[EEPROM_ADDRESS_MAX_POWER] = 255

\* C31: the two auxiliary lines are never both high, in every state the
\* timer interrupt and the entry-by-entry clearing of the tables can reach
\* in any interleaving, the state between the interrupt's two writes
\* included; and the table index stays within 0..29.
C31_LinesNeverBothHigh ==
  /\ ~(SYS_VIA = 1 /\ SYS_VIB = 1)
  /\ mains_counter \in 0..(MAINS_SEQUENCE_LENGTH - 1)

\* the interrupt expired inside the clearing loop, with the entries 0..2
\* cleared and entry 22 of mains_neg still 1: it has driven line A high
\* from entry 5 and has not yet written line B
C31_BetweenWritesWhileClearing ==
  /\ isr_pc = "lineB"
  /\ master_pc = "zeroing"
  /\ zero_i = 3
  /\ mains_counter = 5
  /\ mains_pos[0] = 0
  /\ mains_neg[22] = 1
  /\ SYS_VIA = 1

\* the step restarts a module that has run at least one iteration of loop()
Reboots == now # 0 /\ now' = 0

\* C32: a power limit within 50..425 W that the module holds, as booted or
\* as accepted from a p line since, is the limit it loads at the next
\* restart.
C32_LimitSurvivesRestart ==
  [][(Reboots /\ PowerAccepted(max_power)) => max_power' = max_power]_vars

\* C33: with millis() an unsigned 32-bit counter, an FSM step takes the
\* module from S0 to S1 only if at least 3000 ms have elapsed (modulo 2^32)
\* since timeout_pause was last restarted, whatever the clock read at the
\* restart.
C33_DwellAcrossWrap ==
  [][(FsmSteps /\ state = S0 /\ state' = S1)
       => ~After(3000, Elapsed(now, timeout_pause))]_vars

====
